---- MODULE Spec2Model ----
(***************************************************************************)
(* EV-Crawler: the focused crawler's frontier (crawler/frontier.py), its   *)
(* relevance scorer (crawler/relevance.py) and the crawl orchestrator      *)
(* (crawler/crawl.py, run()).                                              *)
(*                                                                         *)
(* Numbers.  The program computes with floats.  Every score, threshold and *)
(* priority is represented here as an integer count of 1/Unit, Unit = 40:  *)
(* the score weights are multiples of 1/10 and the recency factors that    *)
(* occur are 1, 1/2 and 1/4, so every product that occurs is an exact      *)
(* multiple of 1/40.  Texts are sequences of one-character strings.        *)
(***************************************************************************)
EXTENDS Integers, Sequences, FiniteSets, TLC

VARIABLES
  pc,             \* position of run(): "start", "loop" (the while condition),
                  \* "search", "comments", "author", "hn" (inside a for-loop),
                  \* "flush" (line 348), "done", "aborted" (uncaught exception);
                  \* "driver" in SpecFrontier
  platform,       \* crawl.py:30
  max_items,      \* crawl.py:31
  client,         \* make_client's result: "unset", "ok" or "failed" (None)
  heap,           \* Frontier._heap, the heapq list of _PQItem
  fseq,           \* Frontier._seq
  fseen,          \* Frontier._seen
  popped,         \* the value the last Frontier.pop() returned (crawl.py:93),
                  \* <<priority, entry>>, or <<>> for None
  s,              \* <<item, fault>>: the item the running for-loop is at and
                  \* where its processing raises; <<>> before the first item
  left,           \* items the collaborators may still yield in this run
  seen_posts,     \* crawl.py:90
  items_fetched, items_written, dedup_skipped, error_calls, success_calls,
  posts,          \* posts.jsonl, one entry per line
  nodes,          \* nodes.csv rows
  edges,          \* edges.csv rows
  metrics,        \* metrics.csv rows
  trace           \* history: the calls of Frontier.push and Frontier.pop so far

vars == <<pc, platform, max_items, client, heap, fseq, fseen, popped,
          s, left, seen_posts, items_fetched, items_written, dedup_skipped,
          error_calls, success_calls, posts, nodes, edges, metrics, trace>>

frontierVars == <<heap, fseq, fseen>>
counterVars == <<items_fetched, items_written, dedup_skipped, error_calls,
                 success_calls>>
fileVars == <<posts, nodes, edges, metrics>>

None == "None"     \* a missing author
NoParent == <<>>   \* a missing parent reference

Max(a, b) == IF a >= b THEN a ELSE b
Min(a, b) == IF a <= b THEN a ELSE b
Range(q) == {q[i] : i \in 1..Len(q)}

(***************************************************************************)
(* Bounds of the model.                                                    *)
(***************************************************************************)
MaxYield == 3        \* items the collaborators yield in one run at most
MaxItemsBound == 2   \* largest --max_items tried
MaxPush == 4         \* SpecFrontier: pushes the driver makes at most
MaxRuns == 2         \* SpecRuns: completed runs into one out_dir at most
MaxTextLen == 3      \* SpecScore: length of the texts scored first
MaxAdded == 2        \* SpecScore: term occurrences added to a text at most
MaxHalfLives == 7    \* SpecScore: largest age tried, in half-lives

Unit == 10 * 4       \* 1.0 in the integer representation

(***************************************************************************)
(* Frontier (crawler/frontier.py).  heapq is a binary min-heap in a list;  *)
(* list position p (0-based) is index p + 1 here.                          *)
(***************************************************************************)
\* mutant of PQLess: the sequence number is left out of the comparison
PQLessNoSeq(a, b) == a.priority < b.priority

\* mutant of PQLess: among equal priorities the newest entry comes first
PQLessNewestFirst(a, b) ==
  \/ a.priority < b.priority
  \/ a.priority = b.priority /\ a.seq > b.seq

\* _PQItem.__lt__ generated by dataclass(order=True): (priority, seq) tuples,
\* item excluded by field(compare=False).
PQLess(a, b) ==
  \/ a.priority < b.priority
  \/ a.priority = b.priority /\ a.seq < b.seq

RECURSIVE _siftdown(_, _, _, _)
\* heapq._siftdown(heap, startpos, pos) with newitem = heap[pos] carried along.
_siftdown(h, startpos, pos, newitem) ==
  IF pos > startpos
  THEN LET parentpos == (pos - 1) \div 2
           parent == h[parentpos + 1]
       IN IF PQLess(newitem, parent)
          THEN _siftdown([h EXCEPT ![pos + 1] = parent], startpos, parentpos, newitem)
          ELSE [h EXCEPT ![pos + 1] = newitem]
  ELSE [h EXCEPT ![pos + 1] = newitem]

RECURSIVE _siftup_loop(_, _, _, _)
\* the while loop of heapq._siftup: bubble the smaller child up to a leaf,
\* then sift newitem down from there.
_siftup_loop(h, startpos, pos, newitem) ==
  LET endpos == Len(h)
      childpos == 2 * pos + 1
  IN IF childpos < endpos
     THEN LET rightpos == childpos + 1
              c == IF rightpos < endpos /\ ~PQLess(h[childpos + 1], h[rightpos + 1])
                   THEN rightpos ELSE childpos
          IN _siftup_loop([h EXCEPT ![pos + 1] = h[c + 1]], startpos, c, newitem)
     ELSE _siftdown(h, startpos, pos, newitem)

heappush(h, x) ==
  LET h1 == Append(h, x) IN _siftdown(h1, 0, Len(h1) - 1, x)

\* heappop on a non-empty list: <<new list, returned item>>
heappop(h) ==
  LET lastelt == h[Len(h)]
      h1 == SubSeq(h, 1, Len(h) - 1)
  IN IF Len(h1) > 0
     THEN <<_siftup_loop([h1 EXCEPT ![1] = lastelt], 0, 0, lastelt), h[1]>>
     ELSE <<h1, lastelt>>

\* mutant of FrontierPush: the sequence number is the length of the heap
FrontierPushSeqFromLen(f, priority, item) ==
  << heappush(f[1], [priority |-> 0 - priority, seq |-> Len(f[1]), item |-> item]),
     f[2] + 1,
     Append(f[3], <<"push", priority, item>>) >>

\* Frontier.push applied to f = <<_heap, _seq, call log>>
FrontierPush(f, priority, item) ==
  << heappush(f[1], [priority |-> 0 - priority, seq |-> f[2], item |-> item]),
     f[2] + 1,
     Append(f[3], <<"push", priority, item>>) >>

\* mutant of FrontierPop: an empty frontier returns a (0, None) pair
FrontierPopEmptyPair(h) ==
  IF Len(h) = 0
  THEN <<h, <<0, <<>> >> >>
  ELSE LET node == heappop(h) IN <<node[1], <<0 - node[2].priority, node[2].item>> >>

\* Frontier.pop: <<new _heap, returned value>>
FrontierPop(h) ==
  IF Len(h) = 0
  THEN <<h, <<>> >>
  ELSE LET node == heappop(h) IN <<node[1], <<0 - node[2].priority, node[2].item>> >>

\* Frontier.__len__
FrontierLen == Len(heap)

\* Frontier.seen
Seen(key) == key \in fseen

\* mutant of mark_seen: the set is replaced by the one key
mark_seen_only(seenset, key) == {key}

\* Frontier.mark_seen applied to _seen
mark_seen(seenset, key) == seenset \cup {key}

(***************************************************************************)
(* Text helpers: the str methods the scorer and the orchestrator use, on   *)
(* the characters that occur in the modelled texts.                        *)
(***************************************************************************)
UpperLetters ==
  << "A", "B", "C", "D", "E", "F", "G", "H", "I", "J", "K", "L", "M", "N",
     "O", "P", "Q", "R", "S", "T", "U", "V", "W", "X", "Y", "Z" >>
LowerLetters ==
  << "a", "b", "c", "d", "e", "f", "g", "h", "i", "j", "k", "l", "m", "n",
     "o", "p", "q", "r", "s", "t", "u", "v", "w", "x", "y", "z" >>
Digits == {"0", "1", "2", "3", "4", "5", "6", "7", "8", "9"}

\* the lower-case letter of every upper-case letter
LowerOf ==
  [c \in Range(UpperLetters) |->
     LowerLetters[CHOOSE i \in 1..Len(UpperLetters) : UpperLetters[i] = c]]

\* str.lower(), character by character
LowerChar(c) == IF c \in DOMAIN LowerOf THEN LowerOf[c] ELSE c

Lower(t) == [i \in 1..Len(t) |-> LowerChar(t[i])]

IsSpace(c) == c \in {" ", "\n"}

RECURSIVE LStrip(_)
LStrip(t) == IF Len(t) > 0 /\ IsSpace(t[1]) THEN LStrip(Tail(t)) ELSE t

RECURSIVE RStrip(_)
RStrip(t) ==
  IF Len(t) > 0 /\ IsSpace(t[Len(t)]) THEN RStrip(SubSeq(t, 1, Len(t) - 1)) ELSE t

\* str.strip()
Strip(t) == RStrip(LStrip(t))

SetMin(S) == CHOOSE x \in S : \A y \in S : x <= y

RECURSIVE CountFrom(_, _, _)
\* str.count(p) for non-empty p: non-overlapping occurrences, left to right;
\* the search goes on behind the leftmost occurrence at or after i
CountFrom(t, p, i) ==
  LET found == {j \in i..(Len(t) - Len(p) + 1) : SubSeq(t, j, j + Len(p) - 1) = p}
  IN IF found = {}
     THEN 0
     ELSE 1 + CountFrom(t, p, SetMin(found) + Len(p))

StrCount(t, p) == CountFrom(t, p, 1)

(***************************************************************************)
(* Relevance scorer (crawler/relevance.py).                                *)
(***************************************************************************)
\* the character class [A-Za-z0-9_+-] of _tokenize
TokenChars ==
  Range(UpperLetters) \cup Range(LowerLetters) \cup Digits \cup {"_", "+", "-"}

IsTokenChar(c) == c \in TokenChars

RECURSIVE TokScan(_, _, _)
\* re.findall of [A-Za-z0-9_+-]+, scanning from index i: the next match
\* starts at the first token character and takes all that follow it
TokScan(tl, i, acc) ==
  LET starts == {j \in i..Len(tl) : IsTokenChar(tl[j])}
  IN IF starts = {}
     THEN acc
     ELSE LET b == SetMin(starts)
              stops == {j \in b..Len(tl) : ~IsTokenChar(tl[j])}
              e == IF stops = {} THEN Len(tl) ELSE SetMin(stops) - 1
          IN TokScan(tl, e + 1, Append(acc, SubSeq(tl, b, e)))

_tokenize(text) == IF Len(text) > 0 THEN TokScan(Lower(text), 1, <<>>) ELSE <<>>

RECURSIVE PhraseLoop(_, _, _)
\* the for loop of _phrase_hits over phrases[i..]
PhraseLoop(tl, phrases, i) ==
  IF i > Len(phrases)
  THEN 0
  ELSE LET phl == Strip(Lower(phrases[i]))
       IN (IF Len(phl) = 0 THEN 0 ELSE StrCount(tl, phl)) + PhraseLoop(tl, phrases, i + 1)

_phrase_hits(text, phrases) ==
  IF Len(text) = 0 THEN 0 ELSE PhraseLoop(Lower(text), phrases, 1)

RECURSIVE KeyTokens(_, _)
\* key_tokens: the union of the tokens of keywords[i..]
KeyTokens(keywords, i) ==
  IF i > Len(keywords)
  THEN {}
  ELSE Range(_tokenize(keywords[i])) \cup KeyTokens(keywords, i + 1)

\* weights 0.2 and 0.6 in units of 1/Unit
TokenWeight == (2 * Unit) \div 10
PhraseWeight == (6 * Unit) \div 10

\* mutant of content_score: every matching token counts, not every distinct one
content_scoreEveryToken(text, keywords, brand_terms, policy_terms, brand_bonus, policy_bonus) ==
  IF Len(text) = 0
  THEN 0
  ELSE LET toks == _tokenize(text)
           key_tokens == KeyTokens(keywords, 1)
           base == TokenWeight * Cardinality({i \in 1..Len(toks) : toks[i] \in key_tokens})
                   + PhraseWeight * _phrase_hits(text, keywords)
           brand_hits == _phrase_hits(text, brand_terms)
           policy_hits == _phrase_hits(text, policy_terms)
           bonus == brand_hits * brand_bonus + policy_hits * policy_bonus
       IN base + bonus

content_score(text, keywords, brand_terms, policy_terms, brand_bonus, policy_bonus) ==
  IF Len(text) = 0
  THEN 0
  ELSE LET tokset == Range(_tokenize(text))
           key_tokens == KeyTokens(keywords, 1)
           base == TokenWeight * Cardinality(tokset \cap key_tokens)
                   + PhraseWeight * _phrase_hits(text, keywords)
           brand_hits == _phrase_hits(text, brand_terms)
           policy_hits == _phrase_hits(text, policy_terms)
           bonus == brand_hits * brand_bonus + policy_hits * policy_bonus
       IN base + bonus

\* 2^(-hours_since / half_life_hours) in units of 1/Unit, for ages that are
\* whole multiples of the half-life; exact up to three half-lives and rounded
\* down to the grid beyond.  The grid has a smallest positive value, 1/Unit,
\* as the doubles of the program have one, 2^-1074: the result is 0 once
\* 2^k exceeds Unit, as math.pow(2.0, -k) is 0.0 once k exceeds 1074.
recency_boost(hours_since, half_life_hours) ==
  IF hours_since <= 0
  THEN Unit
  ELSE IF half_life_hours <= 0
       THEN Unit
       ELSE Unit \div (2 ^ (hours_since \div half_life_hours))

\* mutant of final_priority: recency is not clamped to 1.0 from above
final_priorityRecencyUnbounded(content, recency, author_auth, url_auth, off_topic_penalty) ==
  LET c == Max(content, 0)
      r == Max(recency, 0)
      mult == ((Unit + Max(author_auth, 0) + Max(url_auth, 0))
               * (Unit - Max(off_topic_penalty, 0))) \div Unit
  IN (c * r * Max(mult, 0)) \div (Unit * Unit)

final_priority(content, recency, author_auth, url_auth, off_topic_penalty) ==
  LET c == Max(content, 0)
      r == Max(Min(recency, Unit), 0)
      mult == ((Unit + Max(author_auth, 0) + Max(url_auth, 0))
               * (Unit - Max(off_topic_penalty, 0))) \div Unit
  IN (c * r * Max(mult, 0)) \div (Unit * Unit)

(***************************************************************************)
(* The run's configuration (config.toml as read by run(), crawl.py:28-47)  *)
(* and the raw items the fetch collaborators can yield.                    *)
(***************************************************************************)
cfg ==
  [ subreddits   |-> <<"r1", "r2">>,
    keywords     |-> << <<"e", "v">> >>,
    brands       |-> << <<"O", "l", "a">> >>,
    policies     |-> << <<"f", "a">> >>,
    min_text_len |-> 2,
    tau_data     |-> 2 * Unit,
    tau_frontier |-> (12 * Unit) \div 10,
    half_life    |-> 72,
    brand_bonus  |-> (7 * Unit) \div 10,
    policy_bonus |-> (4 * Unit) \div 10 ]

RECURSIVE SeedPairs(_, _, _, _)
\* get_seeds: for s in subs: for k in keywords: pairs.append((s, k))
SeedPairs(subs, keywords, i, j) ==
  IF i > Len(subs)
  THEN <<>>
  ELSE IF j > Len(keywords)
       THEN SeedPairs(subs, keywords, i + 1, 1)
       ELSE <<[subreddit |-> subs[i], query |-> keywords[j]]>>
            \o SeedPairs(subs, keywords, i, j + 1)

get_seeds == SeedPairs(cfg.subreddits, cfg.keywords, 1, 1)

\* texts: "EV ev Ola" scores 2.1, "ev" + "ev" scores 1.4, "ev" scores 0.8,
\* "e" is below min_text_len
TitleHarvest == <<"E", "V", " ", "e", "v", " ", "O", "l", "a">>
TitleEv == <<"e", "v">>
TitleShort == <<"e">>

Contents ==
  { [title |-> TitleHarvest, body |-> <<>>],
    [title |-> TitleEv, body |-> TitleEv],
    [title |-> TitleEv, body |-> <<>>],
    [title |-> TitleShort, body |-> <<>>] }

\* what search_submissions can yield: author None is a deleted account.
\* p1: content 2.1, priority 1.05; p2: 2.8 and 2.8; p3: 1.4 and 1.4;
\* p4: 1.4 and 0.7; p5: too short.  The URLs of a text are not spelled out
\* in its characters: urls is what extract_urls finds in it (utils.py:57-65),
\* each URL given by what url_to_domain makes of it (utils.py:68-79), a
\* domain or None.
Submissions ==
  { [id |-> "p1", author |-> "a1", title |-> TitleHarvest, body |-> <<>>,
     hours_since |-> 72, urls |-> <<>>],
    [id |-> "p2", author |-> None, title |-> TitleHarvest, body |-> <<"O", "l", "a">>,
     hours_since |-> 0, urls |-> <<"d1", None, "d2">>],
    [id |-> "p3", author |-> "a1", title |-> TitleEv, body |-> TitleEv,
     hours_since |-> 0, urls |-> <<>>],
    [id |-> "p4", author |-> "a1", title |-> TitleEv, body |-> TitleEv,
     hours_since |-> 72, urls |-> <<>>],
    [id |-> "p5", author |-> "a1", title |-> TitleShort, body |-> <<>>,
     hours_since |-> 0, urls |-> <<>>] }

\* what fetch_comments can yield
Comments ==
  { [id |-> "c1", author |-> "a1", body |-> TitleHarvest, parent_id |-> <<"t3_", "p1">>],
    [id |-> "c2", author |-> None, body |-> TitleEv, parent_id |-> <<"t1_", "c1">>],
    [id |-> "c3", author |-> "a1", body |-> TitleEv, parent_id |-> NoParent],
    [id |-> "c4", author |-> "a1", body |-> TitleShort, parent_id |-> <<"t3_", "p1">>] }

\* what fetch_author_submissions can yield
Timeline == { [id |-> i, subreddit |-> "r1"] : i \in {"p1", "p6"} }

\* what iter_recent_stories can yield (type is always "story", fetch_hn.py:52)
Stories ==
  { [id |-> "h1", by |-> "a1", title |-> TitleHarvest, text |-> <<>>, hours_since |-> 72],
    [id |-> "h2", by |-> "a1", title |-> TitleEv, text |-> TitleEv, hours_since |-> 0],
    [id |-> "h3", by |-> "a1", title |-> TitleEv, text |-> TitleEv, hours_since |-> 72],
    [id |-> "h4", by |-> "a1", title |-> TitleShort, text |-> <<>>, hours_since |-> 0] }

\* where processing one item raises: nowhere; reading its id; reading another
\* attribute before anything is written; emitting the graph rows after the
\* record was written
Faults == {"none", "id", "attr", "graph"}

(***************************************************************************)
(* Record normalisation and graph rows (crawl.py:126-186, 210-258).        *)
(***************************************************************************)
\* normalize_record's text (parse.py:35-37)
NormText(title, body) ==
  IF Len(title) > 0 /\ Len(body) > 0
  THEN Strip(title \o <<"\n">> \o body)
  ELSE IF Len(title) > 0 THEN title ELSE body

Node(id, type) == [node_id |-> id, node_type |-> type]
Edge(src, dst, type, weight) ==
  [src_id |-> src, dst_id |-> dst, edge_type |-> type, weight |-> weight]

RECURSIVE outbound_domains(_)
\* [d for d in (url_to_domain(u) for u in outbound_urls) if d] (parse.py:40)
outbound_domains(urls) ==
  IF urls = <<>>
  THEN <<>>
  ELSE (IF Head(urls) # None THEN <<Head(urls)>> ELSE <<>>) \o outbound_domains(Tail(urls))

RECURSIVE MentionEdges(_, _, _, _, _, _)
\* for b in terms: cnt = text.lower().count(b.lower()); if cnt > 0: write_edge
MentionEdges(src, text, terms, i, dst, type) ==
  IF i > Len(terms)
  THEN <<>>
  ELSE LET cnt == StrCount(Lower(text), Lower(terms[i]))
       IN (IF cnt > 0 THEN <<Edge(src, dst, type, cnt)>> ELSE <<>>)
          \o MentionEdges(src, text, terms, i + 1, dst, type)

\* the record written for a harvested search item (crawl.py:126-146)
PostRecord(it, subreddit, content, pr) ==
  [ platform |-> "reddit", kind |-> "post", id |-> it.id,
    author_name |-> IF it.author = None THEN "" ELSE it.author,
    container_id |-> subreddit, parent_id |-> NoParent, root_post_id |-> it.id,
    text |-> NormText(it.title, it.body),
    relevance_score |-> content, priority |-> pr ]

\* rows emitted for a harvested search item (crawl.py:150-186)
PostNodes(it, subreddit, record) ==
  LET doms == outbound_domains(it.urls)
  IN <<Node(<<"reddit", "post", it.id>>, "post")>>
     \o (IF it.author # None
         THEN <<Node(<<"reddit", "author", record.author_name>>, "author")>> ELSE <<>>)
     \o <<Node(<<"reddit", "container", subreddit>>, "container")>>
     \o [i \in 1..Len(doms) |-> Node(<<"domain", doms[i]>>, "domain")]

\* mutant of PostEdges: a MENTIONS edge is written for every term, with the
\* count as weight, also when the count is 0
PostEdgesEveryTerm(it, subreddit, record) ==
  LET src == <<"reddit", "post", it.id>>
      doms == outbound_domains(it.urls)
  IN (IF it.author # None
      THEN <<Edge(src, <<"reddit", "author", record.author_name>>, "AUTHORED_BY", 1)>>
      ELSE <<>>)
     \o <<Edge(src, <<"reddit", "container", subreddit>>, "IN_CONTAINER", 1)>>
     \o [i \in 1..Len(doms) |-> Edge(src, <<"domain", doms[i]>>, "LINKS_TO_DOMAIN", 1)]
     \o [i \in 1..Len(cfg.brands) |->
          Edge(src, <<"BRAND">>, "MENTIONS_BRAND",
               StrCount(Lower(record.text), Lower(cfg.brands[i])))]
     \o [i \in 1..Len(cfg.policies) |->
          Edge(src, <<"POLICY">>, "MENTIONS_POLICY",
               StrCount(Lower(record.text), Lower(cfg.policies[i])))]

PostEdges(it, subreddit, record) ==
  LET src == <<"reddit", "post", it.id>>
      doms == outbound_domains(it.urls)
  IN (IF it.author # None
      THEN <<Edge(src, <<"reddit", "author", record.author_name>>, "AUTHORED_BY", 1)>>
      ELSE <<>>)
     \o <<Edge(src, <<"reddit", "container", subreddit>>, "IN_CONTAINER", 1)>>
     \o [i \in 1..Len(doms) |-> Edge(src, <<"domain", doms[i]>>, "LINKS_TO_DOMAIN", 1)]
     \o MentionEdges(src, record.text, cfg.brands, 1, <<"BRAND">>, "MENTIONS_BRAND")
     \o MentionEdges(src, record.text, cfg.policies, 1, <<"POLICY">>, "MENTIONS_POLICY")

\* the record written for a reply (crawl.py:210-230)
CommentRecord(c, sid) ==
  [ platform |-> "reddit", kind |-> "comment", id |-> c.id,
    author_name |-> IF c.author = None THEN "" ELSE c.author,
    container_id |-> "", parent_id |-> c.parent_id, root_post_id |-> sid,
    text |-> NormText(<<>>, c.body),
    relevance_score |-> 0, priority |-> 0 ]

\* rows emitted for a reply (crawl.py:234-258)
CommentNodes(c) ==
  (IF c.author # None
   THEN <<Node(<<"reddit", "author", c.author>>, "author")>> ELSE <<>>)
  \o <<Node(<<"reddit", "comment", c.id>>, "comment")>>

\* mutant of CommentEdges: every parent reference is taken for a post
CommentEdgesParentIsPost(c) ==
  LET src == <<"reddit", "comment", c.id>>
      dst == IF c.parent_id = NoParent THEN <<>>
             ELSE <<"reddit", "post", c.parent_id[2]>>
  IN (IF c.author # None
      THEN <<Edge(src, <<"reddit", "author", c.author>>, "AUTHORED_BY", 1)>> ELSE <<>>)
     \o (IF c.parent_id # NoParent THEN <<Edge(src, dst, "REPLY_TO", 1)>> ELSE <<>>)

CommentEdges(c) ==
  LET src == <<"reddit", "comment", c.id>>
      dst == IF c.parent_id = NoParent THEN <<>>
             ELSE IF c.parent_id[1] = "t3_" THEN <<"reddit", "post", c.parent_id[2]>>
             ELSE IF c.parent_id[1] = "t1_" THEN <<"reddit", "comment", c.parent_id[2]>>
             ELSE <<"reddit", c.parent_id[1], c.parent_id[2]>>
  IN (IF c.author # None
      THEN <<Edge(src, <<"reddit", "author", c.author>>, "AUTHORED_BY", 1)>> ELSE <<>>)
     \o (IF c.parent_id # NoParent THEN <<Edge(src, dst, "REPLY_TO", 1)>> ELSE <<>>)

\* the record written for a story (crawl.py:297-319)
StoryRecord(it, content, pr) ==
  [ platform |-> "hn", kind |-> "post", id |-> it.id, author_name |-> it.by,
    container_id |-> "hn", parent_id |-> NoParent, root_post_id |-> it.id,
    text |-> NormText(it.title, it.text),
    relevance_score |-> content, priority |-> pr ]

\* rows emitted for a story (crawl.py:324-340)
StoryNodes(it, record) ==
  << Node(<<"hn", "post", it.id>>, "post"),
     Node(<<"hn", "author", record.author_name>>, "author"),
     Node(<<"hn", "container", "HN">>, "container") >>

StoryEdges(it, record) ==
  LET src == <<"hn", "post", it.id>>
  IN << Edge(src, <<"hn", "author", record.author_name>>, "AUTHORED_BY", 1),
        Edge(src, <<"hn", "container", "HN">>, "IN_CONTAINER", 1) >>
     \o MentionEdges(src, record.text, cfg.brands, 1, <<"BRAND">>, "MENTIONS_BRAND")
     \o MentionEdges(src, record.text, cfg.policies, 1, <<"POLICY">>, "MENTIONS_POLICY")

\* mutant of MetricsRow: the fetched count is written as success_calls
MetricsRowSuccessIsFetched(fetched, written, success, errors, dedup) ==
  [ items_fetched |-> fetched, items_written |-> written,
    success_calls |-> fetched, error_calls |-> errors, dedup_skipped |-> dedup ]

\* the row write_metrics appends (persist.py:110-122); the timestamp and the
\* elapsed seconds are wall-clock readings and are left out
MetricsRow(fetched, written, success, errors, dedup) ==
  [ items_fetched |-> fetched, items_written |-> written,
    success_calls |-> success, error_calls |-> errors, dedup_skipped |-> dedup ]

Header == [row |-> "header"]

(***************************************************************************)
(* The orchestrator, run() of crawler/crawl.py.                            *)
(***************************************************************************)
\* mutant of SeedPriority: the fixed priority is 0.5
SeedPriorityHalf == Unit \div 2

SeedPriority == Unit      \* priority=1.0 (crawl.py:88, 267, 271)

SearchTask(seed) == [etype |-> "search", subreddit |-> seed.subreddit, query |-> seed.query]
CommentsTask(sid) == [etype |-> "comments", submission_id |-> sid]
AuthorTask(name) == [etype |-> "author", author |-> name]
SubmissionTask(sub, id) == [etype |-> "submission", subreddit |-> sub, id |-> id]

RECURSIVE PushSeeds(_, _, _)
\* for sub, kw in seeds: fr.push(priority=1.0, item=("search", ...))
PushSeeds(f, seeds, i) ==
  IF i > Len(seeds)
  THEN f
  ELSE PushSeeds(FrontierPush(f, SeedPriority, SearchTask(seeds[i])), seeds, i + 1)

\* the three relevance values of a text aged hours_since (crawl.py:116-122)
Content(text) ==
  content_score(text, cfg.keywords, cfg.brands, cfg.policies,
                cfg.brand_bonus, cfg.policy_bonus)
Recency(hours_since) == recency_boost(hours_since, cfg.half_life)
Priority(text, hours_since) == final_priority(Content(text), Recency(hours_since), 0, 0, 0)

\* text of a search item (crawl.py:111-113)
SearchText(it) == Strip(it.title \o <<"\n">> \o it.body)

\* combined text of a story (crawl.py:281-283)
StoryText(it) ==
  IF Len(it.title) > 0 /\ Len(it.text) > 0
  THEN Strip(it.title \o <<"\n">> \o it.text)
  ELSE IF Len(it.title) > 0 THEN it.title ELSE it.text

Init ==
  /\ pc = "start"
  /\ platform \in {"reddit", "hn"}
  /\ max_items \in 0..MaxItemsBound
  /\ client = "unset"
  /\ heap = <<>> /\ fseq = 0 /\ fseen = {}
  /\ popped = <<>> /\ s = <<>> /\ left = 0
  /\ seen_posts = {}
  /\ items_fetched = 0 /\ items_written = 0 /\ dedup_skipped = 0
  /\ error_calls = 0 /\ success_calls = 0
  /\ posts = <<>> /\ nodes = <<>> /\ edges = <<>> /\ metrics = <<>>
  /\ trace = <<>>

\* mutant of OpenWriters: the metrics header is written whatever the size
\* of the file
OpenWritersHeaderAlways ==
  /\ posts' = posts
  /\ nodes' = <<Header>>
  /\ edges' = <<Header>>
  /\ metrics' = Append(metrics, Header)

\* open_writers (persist.py:46-71): posts.jsonl and metrics.csv are opened
\* for appending, nodes.csv and edges.csv for writing; a csv file of size 0
\* gets its header row
OpenWriters ==
  /\ posts' = posts
  /\ nodes' = <<Header>>
  /\ edges' = <<Header>>
  /\ metrics' = IF Len(metrics) = 0 THEN <<Header>> ELSE metrics

\* crawl.py:28, seeds.py:21-22: load_config raises FileNotFoundError; run()
\* ends with the exception before open_writers is reached
StartConfigMissing ==
  /\ pc = "start"
  /\ pc' = "aborted"
  /\ UNCHANGED <<platform, max_items, client, frontierVars, popped, s, left,
                 seen_posts, counterVars, fileVars, trace>>

\* mutant of StartClientFails: the row is written with error_calls as it is
StartClientFailsErrorNotCounted ==
  /\ pc = "start" /\ platform = "reddit"
  /\ client' = "failed"
  /\ posts' = posts /\ nodes' = <<Header>> /\ edges' = <<Header>>
  /\ metrics' = (IF Len(metrics) = 0 THEN <<Header>> ELSE metrics)
                \o <<MetricsRow(items_fetched, items_written, success_calls,
                                error_calls, dedup_skipped)>>
  /\ pc' = "done"
  /\ UNCHANGED <<platform, max_items, frontierVars, popped, s, left,
                 seen_posts, counterVars, trace>>

\* crawl.py:49-84: make_client returns None; one metrics row, then return
StartClientFails ==
  /\ pc = "start" /\ platform = "reddit"
  /\ client' = "failed"
  /\ posts' = posts /\ nodes' = <<Header>> /\ edges' = <<Header>>
  /\ metrics' = (IF Len(metrics) = 0 THEN <<Header>> ELSE metrics)
                \o <<MetricsRow(items_fetched, items_written, success_calls,
                                error_calls + 1, dedup_skipped)>>
  /\ pc' = "done"
  /\ UNCHANGED <<platform, max_items, frontierVars, popped, s, left,
                 seen_posts, counterVars, trace>>

\* crawl.py:49-90: the client is there; the seeds are pushed
StartReddit ==
  /\ pc = "start" /\ platform = "reddit"
  /\ client' = "ok"
  /\ OpenWriters
  /\ LET f == PushSeeds(<<heap, fseq, trace>>, get_seeds, 1)
     IN heap' = f[1] /\ fseq' = f[2] /\ trace' = f[3]
  /\ seen_posts' = {}
  /\ left' = MaxYield
  /\ pc' = "loop"
  /\ UNCHANGED <<platform, max_items, fseen, popped, s, counterVars>>

\* crawl.py:49-60, 273-276: the story feed is opened
StartHN ==
  /\ pc = "start" /\ platform = "hn"
  /\ OpenWriters
  /\ left' = MaxYield
  /\ pc' = "hn"
  /\ UNCHANGED <<platform, max_items, client, frontierVars, popped, s,
                 seen_posts, counterVars, trace>>

\* crawl.py:92: the while condition is false
LoopExit ==
  /\ pc = "loop"
  /\ ~(FrontierLen > 0 /\ items_written < max_items)
  /\ pc' = "flush"
  /\ UNCHANGED <<platform, max_items, client, frontierVars, popped, s, left,
                 seen_posts, counterVars, fileVars, trace>>

\* crawl.py:92-102, 200-202, 263-265: pop a task whose branch iterates a
\* collaborator call
Dispatch ==
  /\ pc = "loop"
  /\ FrontierLen > 0 /\ items_written < max_items
  /\ LET r == FrontierPop(heap)
     IN /\ heap' = r[1]
        /\ popped' = r[2]
        /\ trace' = Append(trace, <<"pop", r[2]>>)
        /\ r[2][2].etype \in {"search", "comments", "author"}
        /\ pc' = r[2][2].etype
  /\ UNCHANGED <<platform, max_items, client, fseq, fseen, s, left, seen_posts,
                 counterVars, fileVars>>

\* mutant of DispatchSubmission: the submission task is popped and nothing is
\* pushed for it
DispatchSubmissionNoPush ==
  /\ pc = "loop"
  /\ FrontierLen > 0 /\ items_written < max_items
  /\ LET r == FrontierPop(heap)
     IN /\ r[2][2].etype = "submission"
        /\ popped' = r[2]
        /\ heap' = r[1] /\ fseq' = fseq
        /\ trace' = Append(trace, <<"pop", r[2]>>)
  /\ pc' = "loop"
  /\ UNCHANGED <<platform, max_items, client, fseen, s, left, seen_posts,
                 counterVars, fileVars>>

\* crawl.py:92-97, 269-271: a submission task pushes the comments task
DispatchSubmission ==
  /\ pc = "loop"
  /\ FrontierLen > 0 /\ items_written < max_items
  /\ LET r == FrontierPop(heap)
     IN /\ r[2][2].etype = "submission"
        /\ popped' = r[2]
        /\ LET f == FrontierPush(<<r[1], fseq, Append(trace, <<"pop", r[2]>>)>>,
                                 SeedPriority, CommentsTask(r[2][2].id))
           IN heap' = f[1] /\ fseq' = f[2] /\ trace' = f[3]
  /\ pc' = "loop"
  /\ UNCHANGED <<platform, max_items, client, fseen, s, left, seen_posts,
                 counterVars, fileVars>>

\* mutant of SearchBranch: a text below min_text_len is counted as an error
SearchBranchShortIsError(it, fault, seen) ==
  LET text == SearchText(it)
  IN IF fault = "id" THEN "raise"
     ELSE IF it.id \in seen THEN "dedup"
     ELSE IF fault = "attr" THEN "raise_seen"
     ELSE IF Len(text) < cfg.min_text_len THEN "raise_seen"
     ELSE IF Content(text) >= cfg.tau_data
          THEN IF fault = "graph" THEN "raise_written" ELSE "harvest"
     ELSE IF Priority(text, it.hours_since) >= cfg.tau_frontier THEN "explore"
     ELSE "drop"

\* mutant of SearchBranch: the seen_posts check is missing
SearchBranchNoDedup(it, fault, seen) ==
  LET text == SearchText(it)
  IN IF fault = "id" THEN "raise"
     ELSE IF fault = "attr" THEN "raise_seen"
     ELSE IF Len(text) < cfg.min_text_len THEN "short"
     ELSE IF Content(text) >= cfg.tau_data
          THEN IF fault = "graph" THEN "raise_written" ELSE "harvest"
     ELSE IF Priority(text, it.hours_since) >= cfg.tau_frontier THEN "explore"
     ELSE "drop"

\* mutant of SearchBranch: the explore threshold is applied to the content
\* score instead of the final priority
SearchBranchContentGate(it, fault, seen) ==
  LET text == SearchText(it)
  IN IF fault = "id" THEN "raise"
     ELSE IF it.id \in seen THEN "dedup"
     ELSE IF fault = "attr" THEN "raise_seen"
     ELSE IF Len(text) < cfg.min_text_len THEN "short"
     ELSE IF Content(text) >= cfg.tau_data
          THEN IF fault = "graph" THEN "raise_written" ELSE "harvest"
     ELSE IF Content(text) >= cfg.tau_frontier THEN "explore"
     ELSE "drop"

\* mutant of SearchBranch: the id is added to seen_posts after the other
\* attributes were read
SearchBranchSeenAfterAttrs(it, fault, seen) ==
  LET text == SearchText(it)
  IN IF fault = "id" THEN "raise"
     ELSE IF it.id \in seen THEN "dedup"
     ELSE IF fault = "attr" THEN "raise"
     ELSE IF Len(text) < cfg.min_text_len THEN "short"
     ELSE IF Content(text) >= cfg.tau_data
          THEN IF fault = "graph" THEN "raise_written" ELSE "harvest"
     ELSE IF Priority(text, it.hours_since) >= cfg.tau_frontier THEN "explore"
     ELSE "drop"

\* which path the body of the search for-loop takes for item it
\* (crawl.py:104-198)
SearchBranch(it, fault, seen) ==
  LET text == SearchText(it)
  IN IF fault = "id" THEN "raise"
     ELSE IF it.id \in seen THEN "dedup"
     ELSE IF fault = "attr" THEN "raise_seen"
     ELSE IF Len(text) < cfg.min_text_len THEN "short"
     ELSE IF Content(text) >= cfg.tau_data
          THEN IF fault = "graph" THEN "raise_written" ELSE "harvest"
     ELSE IF Priority(text, it.hours_since) >= cfg.tau_frontier THEN "explore"
     ELSE "drop"

\* mutant of PushHarvest: the author task is pushed at the seed priority
PushHarvestAuthorAtSeed(f, it, pr, record) ==
  LET f1 == FrontierPush(f, pr, CommentsTask(it.id))
  IN IF it.author # None
     THEN FrontierPush(f1, SeedPriority, AuthorTask(record.author_name))
     ELSE f1

\* the tasks a harvested item pushes (crawl.py:188-191)
PushHarvest(f, it, pr, record) ==
  LET f1 == FrontierPush(f, pr, CommentsTask(it.id))
  IN IF it.author # None
     THEN FrontierPush(f1, pr, AuthorTask(record.author_name))
     ELSE f1

\* mutant of PushExplore: the task is pushed at the seed priority
PushExploreAtSeed(f, it, pr) == FrontierPush(f, SeedPriority, CommentsTask(it.id))

\* the task an explore-only item pushes (crawl.py:193-195)
PushExplore(f, it, pr) == FrontierPush(f, pr, CommentsTask(it.id))

\* mutant of SearchItem: the id is added to seen_posts after the length
\* filter
SearchItemFilterBeforeSeen(it, fault) ==
  /\ pc = "search" /\ left > 0
  /\ left' = left - 1
  /\ s' = <<it, fault>>
  /\ items_fetched' = items_fetched + 1
  /\ LET subreddit == popped[2].subreddit
         text == SearchText(it)
         content == Content(text)
         pr == Priority(text, it.hours_since)
         record == PostRecord(it, subreddit, content, pr)
         branch == SearchBranch(it, fault, seen_posts)
         f == IF branch = "harvest" THEN PushHarvest(<<heap, fseq, trace>>, it, pr, record)
              ELSE IF branch = "explore" THEN PushExplore(<<heap, fseq, trace>>, it, pr)
              ELSE <<heap, fseq, trace>>
     IN /\ dedup_skipped' = IF branch = "dedup" THEN dedup_skipped + 1 ELSE dedup_skipped
        /\ seen_posts' = IF branch \in {"raise", "dedup", "short"}
                         THEN seen_posts ELSE seen_posts \cup {it.id}
        /\ error_calls' = IF branch \in {"raise", "raise_seen", "raise_written"}
                          THEN error_calls + 1 ELSE error_calls
        /\ posts' = IF branch \in {"harvest", "raise_written"}
                    THEN Append(posts, record) ELSE posts
        /\ items_written' = IF branch \in {"harvest", "raise_written"}
                            THEN items_written + 1 ELSE items_written
        /\ nodes' = IF branch = "harvest"
                    THEN nodes \o PostNodes(it, subreddit, record) ELSE nodes
        /\ edges' = IF branch = "harvest"
                    THEN edges \o PostEdges(it, subreddit, record) ELSE edges
        /\ heap' = f[1]
        /\ fseq' = f[2]
        /\ trace' = f[3]
  /\ UNCHANGED <<pc, platform, max_items, client, fseen, popped,
                 success_calls, metrics>>

\* crawl.py:102-198: one item of search_submissions
SearchItem(it, fault) ==
  /\ pc = "search" /\ left > 0
  /\ left' = left - 1
  /\ s' = <<it, fault>>
  /\ items_fetched' = items_fetched + 1
  /\ LET subreddit == popped[2].subreddit
         text == SearchText(it)
         content == Content(text)
         pr == Priority(text, it.hours_since)
         record == PostRecord(it, subreddit, content, pr)
         branch == SearchBranch(it, fault, seen_posts)
         f == IF branch = "harvest" THEN PushHarvest(<<heap, fseq, trace>>, it, pr, record)
              ELSE IF branch = "explore" THEN PushExplore(<<heap, fseq, trace>>, it, pr)
              ELSE <<heap, fseq, trace>>
     IN /\ dedup_skipped' = IF branch = "dedup" THEN dedup_skipped + 1 ELSE dedup_skipped
        /\ seen_posts' = IF branch \in {"raise", "dedup"}
                         THEN seen_posts ELSE seen_posts \cup {it.id}
        /\ error_calls' = IF branch \in {"raise", "raise_seen", "raise_written"}
                          THEN error_calls + 1 ELSE error_calls
        /\ posts' = IF branch \in {"harvest", "raise_written"}
                    THEN Append(posts, record) ELSE posts
        /\ items_written' = IF branch \in {"harvest", "raise_written"}
                            THEN items_written + 1 ELSE items_written
        /\ nodes' = IF branch = "harvest"
                    THEN nodes \o PostNodes(it, subreddit, record) ELSE nodes
        /\ edges' = IF branch = "harvest"
                    THEN edges \o PostEdges(it, subreddit, record) ELSE edges
        /\ heap' = f[1]
        /\ fseq' = f[2]
        /\ trace' = f[3]
  /\ UNCHANGED <<pc, platform, max_items, client, fseen, popped,
                 success_calls, metrics>>

\* mutant of CommentBranch: a reply is written only if its content score
\* reaches tau_data
CommentBranchGated(c, fault) ==
  IF Len(Strip(c.body)) < cfg.min_text_len THEN "short"
  ELSE IF fault = "id" THEN "raise"
  ELSE IF Content(Strip(c.body)) < cfg.tau_data THEN "drop"
  ELSE IF fault = "graph" THEN "raise_written"
  ELSE "write"

\* which path the body of the comments for-loop takes (crawl.py:203-261)
CommentBranch(c, fault) ==
  IF Len(Strip(c.body)) < cfg.min_text_len THEN "short"
  ELSE IF fault = "id" THEN "raise"
  ELSE IF fault = "graph" THEN "raise_written"
  ELSE "write"

\* crawl.py:202-261: one reply of fetch_comments
CommentsItem(c, fault) ==
  /\ pc = "comments" /\ left > 0
  /\ left' = left - 1
  /\ s' = <<c, fault>>
  /\ LET sid == popped[2].submission_id
         record == CommentRecord(c, sid)
         branch == CommentBranch(c, fault)
     IN /\ error_calls' = IF branch \in {"raise", "raise_written"}
                          THEN error_calls + 1 ELSE error_calls
        /\ posts' = IF branch \in {"write", "raise_written"}
                    THEN Append(posts, record) ELSE posts
        /\ items_written' = IF branch \in {"write", "raise_written"}
                            THEN items_written + 1 ELSE items_written
        /\ nodes' = IF branch = "write" THEN nodes \o CommentNodes(c) ELSE nodes
        /\ edges' = IF branch = "write" THEN edges \o CommentEdges(c) ELSE edges
  /\ UNCHANGED <<pc, platform, max_items, client, frontierVars, popped,
                 seen_posts, items_fetched, dedup_skipped, success_calls,
                 metrics, trace>>

\* crawl.py:265-267: one item of fetch_author_submissions; the loop body is
\* not inside a try, so an item whose id cannot be read ends run() with the
\* exception
AuthorItem(it, fault) ==
  /\ pc = "author" /\ left > 0
  /\ left' = left - 1
  /\ s' = <<it, fault>>
  /\ IF fault = "none"
     THEN /\ LET f == FrontierPush(<<heap, fseq, trace>>, SeedPriority,
                                   SubmissionTask(it.subreddit, it.id))
             IN heap' = f[1] /\ fseq' = f[2] /\ trace' = f[3]
          /\ pc' = "author"
     ELSE /\ UNCHANGED <<heap, fseq, trace>>
          /\ pc' = "aborted"
  /\ UNCHANGED <<platform, max_items, client, fseen, popped, seen_posts,
                 counterVars, fileVars>>

\* the collaborator call of the running for-loop yields nothing more
\* (crawl.py:102, 202, 265): back to the while condition
Exhausted ==
  /\ pc \in {"search", "comments", "author"}
  /\ pc' = "loop"
  /\ UNCHANGED <<platform, max_items, client, frontierVars, popped, s, left,
                 seen_posts, counterVars, fileVars, trace>>

\* mutant of StoryBranch: the two-tier rule of the search branch, where only
\* content >= tau_data persists
StoryBranchContentOnly(it, fault) ==
  LET combined == StoryText(it)
  IN IF fault = "attr" THEN "raise"
     ELSE IF Len(combined) < cfg.min_text_len THEN "short"
     ELSE IF Content(combined) >= cfg.tau_data
          THEN IF fault = "graph" THEN "raise_written" ELSE "write"
     ELSE "drop"

\* which path the body of the story for-loop takes (crawl.py:277-346)
StoryBranch(it, fault) ==
  LET combined == StoryText(it)
  IN IF fault = "attr" THEN "raise"
     ELSE IF Len(combined) < cfg.min_text_len THEN "short"
     ELSE IF \/ Content(combined) >= cfg.tau_data
             \/ Priority(combined, it.hours_since) >= cfg.tau_frontier
          THEN IF fault = "graph" THEN "raise_written" ELSE "write"
     ELSE "drop"

\* crawl.py:276-346: one story of iter_recent_stories.  The continue
\* statements (length filter, except) skip the cap check of line 342.
StoryItem(it, fault) ==
  /\ pc = "hn" /\ left > 0
  /\ left' = left - 1
  /\ s' = <<it, fault>>
  /\ items_fetched' = items_fetched + 1
  /\ LET combined == StoryText(it)
         content == Content(combined)
         pr == Priority(combined, it.hours_since)
         record == StoryRecord(it, content, pr)
         branch == StoryBranch(it, fault)
     IN /\ error_calls' = IF branch \in {"raise", "raise_written"}
                          THEN error_calls + 1 ELSE error_calls
        /\ posts' = IF branch \in {"write", "raise_written"}
                    THEN Append(posts, record) ELSE posts
        /\ items_written' = IF branch \in {"write", "raise_written"}
                            THEN items_written + 1 ELSE items_written
        /\ nodes' = IF branch = "write" THEN nodes \o StoryNodes(it, record) ELSE nodes
        /\ edges' = IF branch = "write" THEN edges \o StoryEdges(it, record) ELSE edges
        /\ pc' = IF branch \in {"write", "drop"} /\ items_written' >= max_items
                 THEN "flush" ELSE "hn"
  /\ UNCHANGED <<platform, max_items, client, frontierVars, popped,
                 seen_posts, dedup_skipped, success_calls, metrics, trace>>

\* the story feed yields nothing more (crawl.py:276)
StoriesExhausted ==
  /\ pc = "hn"
  /\ pc' = "flush"
  /\ UNCHANGED <<platform, max_items, client, frontierVars, popped, s, left,
                 seen_posts, counterVars, fileVars, trace>>

\* crawl.py:348-360: the metrics row at the end of run()
Finish ==
  /\ pc = "flush"
  /\ metrics' = Append(metrics, MetricsRow(items_fetched, items_written,
                                           success_calls, error_calls, dedup_skipped))
  /\ pc' = "done"
  /\ UNCHANGED <<platform, max_items, client, frontierVars, popped, s, left,
                 seen_posts, counterVars, posts, nodes, edges, trace>>

Next ==
  \/ StartConfigMissing
  \/ StartClientFails
  \/ StartReddit
  \/ StartHN
  \/ LoopExit
  \/ Dispatch
  \/ DispatchSubmission
  \/ \E it \in Submissions, fault \in Faults : SearchItem(it, fault)
  \/ \E c \in Comments, fault \in {"none", "id", "graph"} : CommentsItem(c, fault)
  \/ \E it \in Timeline, fault \in {"none", "id"} : AuthorItem(it, fault)
  \/ Exhausted
  \/ \E it \in Stories, fault \in {"none", "attr", "graph"} : StoryItem(it, fault)
  \/ StoriesExhausted
  \/ Finish

Spec == Init /\ [][Next]_vars

\* run() is one sequential thread: while a step is possible, one is taken
SpecLive == Init /\ [][Next]_vars /\ WF_vars(Next)

(***************************************************************************)
(* Runs one after the other into the same out_dir: story runs and runs     *)
(* whose Reddit client cannot be constructed.  The files are what the      *)
(* earlier runs left; everything else is local to run() and starts anew.   *)
(***************************************************************************)
\* crawl.py:26-58: run() is called again, by a new process
Rerun ==
  /\ pc \in {"done", "aborted"}
  /\ Cardinality({i \in 1..Len(metrics) : metrics[i] # Header}) < MaxRuns
  /\ pc' = "start"
  /\ platform' \in {"reddit", "hn"}
  /\ max_items' \in 0..MaxItemsBound
  /\ client' = "unset"
  /\ heap' = <<>> /\ fseq' = 0 /\ fseen' = {}
  /\ popped' = <<>> /\ s' = <<>> /\ left' = 0
  /\ seen_posts' = {}
  /\ items_fetched' = 0 /\ items_written' = 0 /\ dedup_skipped' = 0
  /\ error_calls' = 0 /\ success_calls' = 0
  /\ trace' = <<>>
  /\ UNCHANGED fileVars

NextRuns ==
  \/ StartConfigMissing
  \/ StartClientFails
  \/ StartHN
  \/ \E it \in Stories, fault \in {"none", "attr", "graph"} : StoryItem(it, fault)
  \/ StoriesExhausted
  \/ Finish
  \/ Rerun

SpecRuns == Init /\ [][NextRuns]_vars

(***************************************************************************)
(* A driver for the Frontier alone: any interleaving of push, pop and      *)
(* mark_seen calls on a fresh Frontier.                                    *)
(***************************************************************************)
DriverPriorities == 1..3
DriverKeys == {"k1", "k2"}

InitFrontier ==
  /\ pc = "driver"
  /\ platform = "reddit"
  /\ max_items = 0
  /\ client = "unset"
  /\ heap = <<>> /\ fseq = 0 /\ fseen = {}
  /\ popped = <<>> /\ s = <<>> /\ left = 0
  /\ seen_posts = {}
  /\ items_fetched = 0 /\ items_written = 0 /\ dedup_skipped = 0
  /\ error_calls = 0 /\ success_calls = 0
  /\ posts = <<>> /\ nodes = <<>> /\ edges = <<>> /\ metrics = <<>>
  /\ trace = <<>>

\* mutant of DriverPush: the push also marks a key seen
DriverPushMarksSeen(p) ==
  /\ pc = "driver"
  /\ fseq < MaxPush /\ Len(trace) < 2 * MaxPush
  /\ LET f == FrontierPush(<<heap, fseq, trace>>, p, [etype |-> "job", n |-> fseq])
     IN heap' = f[1] /\ fseq' = f[2] /\ trace' = f[3]
  /\ fseen' = fseen \cup {"k1"}
  /\ UNCHANGED <<pc, platform, max_items, client, popped, s, left,
                 seen_posts, counterVars, fileVars>>

\* fr.push(priority=p, item=...), each call with a payload of its own
DriverPush(p) ==
  /\ pc = "driver"
  /\ fseq < MaxPush /\ Len(trace) < 2 * MaxPush
  /\ LET f == FrontierPush(<<heap, fseq, trace>>, p, [etype |-> "job", n |-> fseq])
     IN heap' = f[1] /\ fseq' = f[2] /\ trace' = f[3]
  /\ UNCHANGED <<pc, platform, max_items, client, fseen, popped, s, left,
                 seen_posts, counterVars, fileVars>>

\* fr.pop(), also on an empty frontier
DriverPop ==
  /\ pc = "driver"
  /\ Len(trace) < 2 * MaxPush
  /\ LET r == FrontierPop(heap)
     IN /\ heap' = r[1]
        /\ popped' = r[2]
        /\ trace' = Append(trace, <<"pop", r[2]>>)
  /\ UNCHANGED <<pc, platform, max_items, client, fseq, fseen, s, left,
                 seen_posts, counterVars, fileVars>>

\* fr.mark_seen(k)
DriverMarkSeen(k) ==
  /\ pc = "driver"
  /\ fseen' = mark_seen(fseen, k)
  /\ UNCHANGED <<pc, platform, max_items, client, heap, fseq, popped, s, left,
                 seen_posts, counterVars, fileVars, trace>>

NextFrontier ==
  \/ \E p \in DriverPriorities : DriverPush(p)
  \/ DriverPop
  \/ \E k \in DriverKeys : DriverMarkSeen(k)

SpecFrontier == InitFrontier /\ [][NextFrontier]_vars

(***************************************************************************)
(* A driver for the scorer alone: content_score on short texts and on the  *)
(* sentence of tests/test_relevance.py, again after a term was added to    *)
(* the text; final_priority and recency_boost on a grid of arguments.      *)
(***************************************************************************)
ScoreAlphabet == {"e", "v", "E", " "}
ScoreTexts == UNION {[1..k -> ScoreAlphabet] : k \in 0..MaxTextLen}

\* the text of TestRelevance.test_ev_sentence_scores_high
RefSentence ==
  << "T", "h", "e", " ", "n", "e", "w", " ", "A", "t", "h", "e", "r",
     " ", "e", "l", "e", "c", "t", "r", "i", "c", " ", "s", "c", "o",
     "o", "t", "e", "r", " ", "g", "e", "t", "s", " ", "b", "e", "t",
     "t", "e", "r", " ", "b", "a", "t", "t", "e", "r", "y", " ", "s",
     "w", "a", "p", " ", "o", "p", "t", "i", "o", "n", "s", " ", "a",
     "n", "d", " ", "f", "a", "s", "t", " ", "c", "h", "a", "r", "g",
     "i", "n", "g", "." >>

\* the arguments content_score is called with besides the text: the run's
\* configuration, the same with a brand bonus of 0.1, and the test's
ScoreConf(name) ==
  CASE name = "config" ->
         [ keywords |-> cfg.keywords, brand_terms |-> cfg.brands,
           policy_terms |-> cfg.policies,
           brand_bonus |-> cfg.brand_bonus, policy_bonus |-> cfg.policy_bonus ]
    [] name = "low" ->
         [ keywords |-> cfg.keywords, brand_terms |-> cfg.brands,
           policy_terms |-> cfg.policies,
           brand_bonus |-> Unit \div 10, policy_bonus |-> cfg.policy_bonus ]
    [] name = "test" ->
         [ keywords |-> << <<"e", "v", " ", "s", "c", "o", "o", "t", "e", "r">>,
                          <<"e", "l", "e", "c", "t", "r", "i", "c">>,
                          <<"b", "a", "t", "t", "e", "r", "y">>,
                          <<"c", "h", "a", "r", "g", "i", "n", "g">> >>,
           brand_terms |-> << <<"A", "t", "h", "e", "r">>, <<"O", "l", "a">> >>,
           policy_terms |-> << <<"F", "A", "M", "E">> >>,
           brand_bonus |-> (7 * Unit) \div 10, policy_bonus |-> (4 * Unit) \div 10 ]

ScoreOf(text, name) ==
  LET c == ScoreConf(name)
  IN content_score(text, c.keywords, c.brand_terms, c.policy_terms,
                   c.brand_bonus, c.policy_bonus)

\* the keywords, brand terms and policy terms of a call
TermsOf(name) ==
  LET c == ScoreConf(name)
  IN Range(c.keywords) \cup Range(c.brand_terms) \cup Range(c.policy_terms)

\* argument grids of final_priority and recency_boost, in units of 1/Unit
\* and in hours
ContentGrid == {0 - Unit, 0, (7 * Unit) \div 10, (21 * Unit) \div 10}
RecencyGrid == {0 - Unit, 0, Unit \div 4, Unit, 2 * Unit}
AuthGrid == {0 - Unit, 0, Unit \div 2}
PenaltyGrid == {0 - Unit, 0, Unit \div 2, Unit, 2 * Unit}
HalfLifeGrid == {0 - cfg.half_life, 0, cfg.half_life}
AgeGrid == {0 - cfg.half_life} \cup {k * cfg.half_life : k \in 0..MaxHalfLives}

InitScore ==
  /\ \/ /\ pc = "score"
        /\ s \in (ScoreTexts \X {"config", "low"}) \cup {<<RefSentence, "test">>}
     \/ /\ pc = "rank"
        /\ s = <<>>
  /\ platform = "reddit"
  /\ max_items = 0
  /\ client = "unset"
  /\ heap = <<>> /\ fseq = 0 /\ fseen = {}
  /\ popped = <<>> /\ left = 0
  /\ seen_posts = {}
  /\ items_fetched = 0 /\ items_written = 0 /\ dedup_skipped = 0
  /\ error_calls = 0 /\ success_calls = 0
  /\ posts = <<>> /\ nodes = <<>> /\ edges = <<>> /\ metrics = <<>>
  /\ trace = <<>>

\* content_score(text, ...): the result goes to popped
ScoreText ==
  /\ pc = "score"
  /\ popped' = <<ScoreOf(s[1], s[2])>>
  /\ pc' = "scored"
  /\ UNCHANGED <<platform, max_items, client, frontierVars, s, left,
                 seen_posts, counterVars, fileVars, trace>>

\* content_score on the text with one more occurrence of a term, put before
\* or behind it; the score of the text before goes to trace
AddOccurrence(term, side) ==
  /\ pc = "scored"
  /\ Len(trace) < MaxAdded
  /\ term \in TermsOf(s[2])
  /\ LET text == IF side = "end" THEN s[1] \o term ELSE term \o s[1]
     IN /\ s' = <<text, s[2]>>
        /\ popped' = <<ScoreOf(text, s[2])>>
  /\ trace' = Append(trace, popped[1])
  /\ UNCHANGED <<pc, platform, max_items, client, frontierVars, left,
                 seen_posts, counterVars, fileVars>>

\* final_priority(content, recency, author_auth, url_auth, off_topic_penalty):
\* the arguments go to trace, the result to popped
Prioritise(content, recency, author_auth, url_auth, off_topic_penalty) ==
  /\ pc = "rank"
  /\ trace' = <<content, recency, author_auth, url_auth, off_topic_penalty>>
  /\ popped' = <<final_priority(content, recency, author_auth, url_auth,
                                off_topic_penalty)>>
  /\ pc' = "prioritised"
  /\ UNCHANGED <<platform, max_items, client, frontierVars, s, left,
                 seen_posts, counterVars, fileVars>>

\* recency_boost(hours_since, half_life_hours)
Boost(hours_since, half_life_hours) ==
  /\ pc = "rank"
  /\ trace' = <<hours_since, half_life_hours>>
  /\ popped' = <<recency_boost(hours_since, half_life_hours)>>
  /\ pc' = "boosted"
  /\ UNCHANGED <<platform, max_items, client, frontierVars, s, left,
                 seen_posts, counterVars, fileVars>>

\* mutant of Admission: the frontier threshold is tested first
AdmissionExploreFirst(content, pr, tau_data, tau_frontier) ==
  IF pr >= tau_frontier THEN "explore"
  ELSE IF content >= tau_data THEN "harvest"
  ELSE "drop"

\* if content >= tau_data: ... elif pr >= tau_frontier: ... (crawl.py:124,
\* 193), for thresholds other than those of cfg
Admission(content, pr, tau_data, tau_frontier) ==
  IF content >= tau_data THEN "harvest"
  ELSE IF pr >= tau_frontier THEN "explore"
  ELSE "drop"

\* values of tau_data and tau_frontier in a config.toml
ThresholdGrid == {0, Unit, cfg.tau_frontier, cfg.tau_data, 3 * Unit}

\* crawl.py:116-124, 188-195: a new, long enough search item is scored and
\* admitted under the thresholds tau_data and tau_frontier; its tasks are
\* pushed to an empty frontier
Admit(it, tau_data, tau_frontier) ==
  /\ pc = "rank"
  /\ Len(SearchText(it)) >= cfg.min_text_len
  /\ LET text == SearchText(it)
         content == Content(text)
         pr == Priority(text, it.hours_since)
         record == PostRecord(it, cfg.subreddits[1], content, pr)
         branch == Admission(content, pr, tau_data, tau_frontier)
         f == IF branch = "harvest" THEN PushHarvest(<<heap, fseq, trace>>, it, pr, record)
              ELSE IF branch = "explore" THEN PushExplore(<<heap, fseq, trace>>, it, pr)
              ELSE <<heap, fseq, trace>>
     IN /\ heap' = f[1] /\ fseq' = f[2] /\ trace' = f[3]
        /\ s' = <<it, tau_data, tau_frontier, branch>>
        /\ popped' = <<content, pr>>
  /\ pc' = "admitted"
  /\ UNCHANGED <<platform, max_items, client, fseen, left, seen_posts,
                 counterVars, fileVars>>

NextScore ==
  \/ ScoreText
  \/ \E it \in Submissions, td \in ThresholdGrid, tf \in ThresholdGrid : Admit(it, td, tf)
  \/ \E name \in {"config", "low", "test"} :
       \E term \in TermsOf(name), side \in {"start", "end"} : AddOccurrence(term, side)
  \/ \E c \in ContentGrid, r \in RecencyGrid, a \in AuthGrid, u \in AuthGrid,
        p \in PenaltyGrid : Prioritise(c, r, a, u, p)
  \/ \E h \in AgeGrid, hl \in HalfLifeGrid : Boost(h, hl)

SpecScore == InitScore /\ [][NextScore]_vars

(***************************************************************************)
(* Properties.                                                             *)
(***************************************************************************)
\* the Frontier calls made by the step
NewCalls == SubSeq(trace', Len(trace) + 1, Len(trace'))

\* the step processes one item of a search_submissions call
SearchStep == pc = "search" /\ left' = left - 1

\* the data rows of metrics.csv
DataRows(m) == Cardinality({i \in 1..Len(m) : m[i] # Header})

IsPush(call, etype) == call[1] = "push" /\ call[3].etype = etype

PushCount(calls, etype) == Cardinality({i \in 1..Len(calls) : IsPush(calls[i], etype)})

Job(n) == [etype |-> "job", n |-> n]

\* C1: every pop on a non-empty frontier removes and returns the pending
\* entry with the largest priority and, among entries of that priority, the
\* one pushed earliest (smallest sequence number); nothing else leaves the
\* queue.
PopReturnsLargestOldest ==
  [][ Len(heap') < Len(heap) =>
        \E e \in Range(heap) :
          /\ \A x \in Range(heap) :
               \/ 0 - e.priority > 0 - x.priority
               \/ e.priority = x.priority /\ e.seq <= x.seq
          /\ popped' = <<0 - e.priority, e.item>>
          /\ Range(heap') = Range(heap) \ {e}
          /\ Len(heap') = Len(heap) - 1 ]_vars

\* C1 witness: priorities 3, 1, 3, 2 pushed, four pops returned 3, 3, 2, 1
\* with the first priority-3 entry before the second
PopOrderExample ==
  trace = << <<"push", 3, Job(0)>>, <<"push", 1, Job(1)>>,
             <<"push", 3, Job(2)>>, <<"push", 2, Job(3)>>,
             <<"pop", <<3, Job(0)>> >>, <<"pop", <<3, Job(2)>> >>,
             <<"pop", <<2, Job(3)>> >>, <<"pop", <<1, Job(1)>> >> >>

\* C2: a run that has ended, however it ended, has written exactly one
\* metrics row, and no run ever writes more than one.
MetricsRowOncePerRun ==
  /\ DataRows(metrics) <= 1
  /\ pc \in {"done", "aborted"} => DataRows(metrics) = 1

\* the item the step processed raised an exception
ItemRaised ==
  CASE pc = "search" ->
         SearchBranch(s'[1], s'[2], seen_posts) \in {"raise", "raise_seen", "raise_written"}
    [] pc = "comments" -> CommentBranch(s'[1], s'[2]) \in {"raise", "raise_written"}
    [] pc = "author" -> s'[2] # "none"
    [] pc = "hn" -> StoryBranch(s'[1], s'[2]) \in {"raise", "raise_written"}
    [] OTHER -> FALSE

\* C3: when processing one fetched item raises, in any loop, error_calls
\* grows by exactly one and the same loop goes on with the next item.
ItemExceptionCaught ==
  [][ (left' = left - 1 /\ ItemRaised) =>
        (error_calls' = error_calls + 1 /\ pc' = pc) ]_vars

\* C4: no two Comments tasks for the same thread identifier are ever
\* enqueued in one run.
NoSecondCommentsTask ==
  \A i, j \in 1..Len(trace) :
    (i < j /\ IsPush(trace[i], "comments") /\ IsPush(trace[j], "comments"))
      => trace[i][3].submission_id # trace[j][3].submission_id

\* C5: every search item is counted as fetched; an item whose identifier is
\* already in seen_posts only increments dedup_skipped; an item that goes
\* past the dedup check was not in seen_posts and is in it afterwards; and
\* seen_posts never loses an identifier, so no identifier goes past the check
\* twice.
SearchDedupOnce ==
  [][ /\ seen_posts \subseteq seen_posts'
      /\ SearchStep =>
           /\ items_fetched' = items_fetched + 1
           /\ (s'[2] # "id" /\ s'[1].id \in seen_posts) =>
                /\ dedup_skipped' = dedup_skipped + 1
                /\ UNCHANGED <<seen_posts, items_written, error_calls, success_calls,
                               heap, fseq, fseen, trace, posts, nodes, edges, metrics, pc>>
           /\ (s'[2] # "id" /\ dedup_skipped' = dedup_skipped) =>
                /\ s'[1].id \notin seen_posts
                /\ seen_posts' = seen_posts \cup {s'[1].id} ]_vars

\* C5 witness: a search item has just been skipped as a duplicate
DuplicateSkipped ==
  /\ pc = "search" /\ Len(s) > 0
  /\ dedup_skipped = 1 /\ items_fetched = 2
  /\ seen_posts = {s[1].id}

\* the step processes a search item that is new, long enough and does not raise
AdmissionStep ==
  /\ SearchStep
  /\ error_calls' = error_calls
  /\ s'[1].id \notin seen_posts
  /\ Len(SearchText(s'[1])) >= cfg.min_text_len

\* C6: for a new, long enough search item processed without an exception:
\* content >= tau_data gives one record, items_written + 1, one Comments task
\* and one Author task exactly if the author is known; content < tau_data
\* and priority >= tau_frontier gives one Comments task and nothing else;
\* otherwise no record and no task.
TwoTierAdmission ==
  [][ AdmissionStep =>
        LET it == s'[1]
            content == Content(SearchText(it))
            pr == Priority(SearchText(it), it.hours_since)
        IN IF content >= cfg.tau_data
           THEN /\ Len(posts') = Len(posts) + 1
                /\ SubSeq(posts', 1, Len(posts)) = posts
                /\ posts'[Len(posts')].id = it.id
                /\ items_written' = items_written + 1
                /\ PushCount(NewCalls, "comments") = 1
                /\ PushCount(NewCalls, "author") = (IF it.author # None THEN 1 ELSE 0)
                /\ Len(NewCalls) = PushCount(NewCalls, "comments") + PushCount(NewCalls, "author")
                /\ Len(heap') = Len(heap) + Len(NewCalls)
           ELSE IF pr >= cfg.tau_frontier
           THEN /\ UNCHANGED <<posts, items_written, nodes, edges>>
                /\ Len(NewCalls) = 1
                /\ IsPush(NewCalls[1], "comments")
                /\ NewCalls[1][3].submission_id = it.id
                /\ Len(heap') = Len(heap) + 1
           ELSE UNCHANGED <<posts, items_written, nodes, edges, heap, fseq, trace>> ]_vars

\* C6 witness: three items, one above tau_data (p1), one between the
\* thresholds (p3) and one below tau_frontier (p4), gave one record and two
\* Comments tasks
ThreeItemScenario ==
  /\ seen_posts = {"p1", "p3", "p4"}
  /\ items_fetched = 3 /\ error_calls = 0 /\ dedup_skipped = 0
  /\ Len(posts) = 1 /\ items_written = 1
  /\ PushCount(trace, "comments") = 2

\* the step processes an explore-only item
ExploreStep ==
  /\ AdmissionStep
  /\ Content(SearchText(s'[1])) < cfg.tau_data
  /\ Priority(SearchText(s'[1]), s'[1].hours_since) >= cfg.tau_frontier

\* C7: an explore-only item is not persisted: items_written, the record
\* log, the node and the edge table are unchanged, and the one Frontier call
\* is the push of its Comments task at its final priority (no Author task).
ExploreOnlyNotPersisted ==
  [][ ExploreStep =>
        LET it == s'[1]
            pr == Priority(SearchText(it), it.hours_since)
        IN /\ UNCHANGED <<items_written, posts, nodes, edges>>
           /\ NewCalls = << <<"push", pr, CommentsTask(it.id)>> >>
           /\ Range(heap') \ Range(heap)
                = {[priority |-> 0 - pr, seq |-> fseq, item |-> CommentsTask(it.id)]} ]_vars

\* C7 witness: the explore-only item p3 has just been processed
ExploredOnly ==
  /\ pc = "search" /\ Len(s) > 0
  /\ s[1].id = "p3" /\ s[2] = "none"
  /\ seen_posts = {"p3"} /\ items_written = 0
  /\ trace[Len(trace)] = <<"push", Priority(SearchText(s[1]), s[1].hours_since),
                           CommentsTask("p3")>>

\* C8: the tasks pushed for a harvested search item are its Comments task
\* and, if it has an author, its Author task, each at exactly the item's
\* final priority, also when that is below tau_frontier; and a search item
\* pushes an Author task only in the step that persists its record.
HarvestPushesAtFinalPriority ==
  [][ SearchStep =>
        LET it == s'[1]
            pr == Priority(SearchText(it), it.hours_since)
        IN /\ (AdmissionStep /\ Content(SearchText(it)) >= cfg.tau_data) =>
                /\ NewCalls = << <<"push", pr, CommentsTask(it.id)>> >>
                              \o (IF it.author # None
                                  THEN << <<"push", pr, AuthorTask(it.author)>> >>
                                  ELSE <<>>)
                /\ \A e \in Range(heap') \ Range(heap) : e.priority = 0 - pr
           /\ PushCount(NewCalls, "author") > 0 =>
                /\ Len(posts') = Len(posts) + 1
                /\ posts'[Len(posts')].id = it.id ]_vars

\* C8 witness: the harvested item p1, whose final priority is below
\* tau_frontier, has pushed its Comments and its Author task at that priority
HarvestedBelowFrontierThreshold ==
  /\ pc = "search" /\ Len(s) > 0 /\ Len(trace) >= 2
  /\ s[1].id = "p1" /\ s[2] = "none"
  /\ LET pr == Priority(SearchText(s[1]), s[1].hours_since)
     IN /\ pr < cfg.tau_frontier
        /\ trace[Len(trace) - 1] = <<"push", pr, CommentsTask("p1")>>
        /\ trace[Len(trace)] = <<"push", pr, AuthorTask("a1")>>
  /\ posts[Len(posts)].id = "p1"

\* C9: on the frontier-driven platform items_written never exceeds max_items.
WrittenWithinCap == platform = "reddit" => items_written <= max_items

\* C10: no task is popped when items_written >= max_items, and when the
\* primary loop is left the frontier is empty or items_written >= max_items.
LoopEndsAtGuardOnly ==
  [][ /\ (Len(NewCalls) > 0 /\ NewCalls[1][1] = "pop") => items_written < max_items
      /\ (pc \in {"loop", "search", "comments", "author"}
          /\ pc' \notin {"loop", "search", "comments", "author"})
           => (Len(heap) = 0 \/ items_written >= max_items) ]_vars

\* C11: once the client is there, the first Frontier calls of the run are the
\* pushes of one Search task per (subreddit, keyword) pair of the
\* configuration, each at priority 1.0, and until the first pop the frontier
\* holds exactly these entries and no task of another kind.
SeedsPushedBeforeDispatch ==
  LET subs == cfg.subreddits
      kws == cfg.keywords
      n == Len(subs) * Len(kws)
      seedPush(i, j) ==
        <<"push", Unit, [etype |-> "search", subreddit |-> subs[i], query |-> kws[j]]>>
  IN client = "ok" =>
       /\ Len(trace) >= n
       /\ \A k \in 1..n : trace[k][1] = "push"
       /\ \A i \in 1..Len(subs), j \in 1..Len(kws) :
            Cardinality({k \in 1..n : trace[k] = seedPush(i, j)}) = 1
       /\ Len(trace) = n =>
            /\ Len(heap) = n
            /\ \A e \in Range(heap) :
                 /\ e.item.etype = "search"
                 /\ e.priority = 0 - Unit
                 /\ <<"push", Unit, e.item>> \in Range(trace)

\* C11 witness: the seeds are in the frontier and nothing has been popped yet
SeedsPending ==
  /\ pc = "loop" /\ client = "ok"
  /\ Len(trace) = Len(cfg.subreddits) * Len(cfg.keywords)
  /\ Len(heap) = Len(trace) /\ Len(heap) > 1

\* the step is the failed client construction and its consequences: nothing
\* pushed, no collaborator called, the counters at 0 and left so, and one
\* metrics row with error_calls = 1 appended
ClientFailureStep ==
  /\ platform = "reddit" /\ client' = "failed" /\ pc' = "done"
  /\ heap' = <<>> /\ fseq' = 0 /\ trace' = <<>> /\ s' = <<>> /\ left' = 0
  /\ items_fetched' = 0 /\ items_written' = 0 /\ dedup_skipped' = 0
  /\ posts' = posts
  /\ DataRows(metrics') = DataRows(metrics) + 1
  /\ metrics'[Len(metrics')] = MetricsRow(0, 0, 0, 1, 0)

ReplyStep == pc = "comments" /\ left' = left - 1 /\ error_calls' = error_calls

\* C13: a reply processed without an exception whose stripped body has at
\* least min_text_len characters is appended to the record log as a comment
\* record and items_written grows by one, whatever its score; a shorter
\* reply changes no file and no counter.
RepliesNotGated ==
  [][ ReplyStep =>
        LET c == s'[1]
        IN IF Len(Strip(c.body)) >= cfg.min_text_len
           THEN /\ Len(posts') = Len(posts) + 1
                /\ SubSeq(posts', 1, Len(posts)) = posts
                /\ posts'[Len(posts')].id = c.id
                /\ posts'[Len(posts')].kind = "comment"
                /\ posts'[Len(posts')].text = Strip(c.body)
                /\ items_written' = items_written + 1
           ELSE UNCHANGED <<posts, nodes, edges, items_written>> ]_vars

\* C13 witness: reply c2, whose content score is below both thresholds, has
\* just been persisted
LowScoreReplyPersisted ==
  /\ pc = "comments" /\ Len(s) > 0 /\ Len(posts) > 0
  /\ s[1].id = "c2" /\ s[2] = "none"
  /\ Content(Strip(s[1].body)) < cfg.tau_frontier
  /\ posts[Len(posts)].id = "c2" /\ posts[Len(posts)].kind = "comment"

\* C14: an author-timeline item that is read without an exception makes
\* exactly one Frontier call, the push of a Submission task for its id and
\* community at priority 1.0; popping a Submission task is followed by
\* exactly one push, of the Comments task for its id at priority 1.0; neither
\* step changes a file or a counter.
AuthorAndSubmissionOnlyPush ==
  [][ /\ (pc = "author" /\ left' = left - 1 /\ pc' = "author") =>
           /\ NewCalls = << <<"push", Unit,
                              [etype |-> "submission", subreddit |-> s'[1].subreddit,
                               id |-> s'[1].id]>> >>
           /\ Len(heap') = Len(heap) + 1
           /\ UNCHANGED <<fileVars, counterVars>>
      /\ (pc = "loop" /\ Len(NewCalls) > 0 /\ NewCalls[1][1] = "pop"
          /\ NewCalls[1][2][2].etype = "submission") =>
           /\ NewCalls = << NewCalls[1],
                            <<"push", Unit,
                              [etype |-> "comments",
                               submission_id |-> NewCalls[1][2][2].id]>> >>
           /\ Len(heap') = Len(heap)
           /\ UNCHANGED <<fileVars, counterVars>> ]_vars

\* C14 witness: an author task pushed a Submission task for p6, and popping
\* it pushed the Comments task for p6
SubmissionBecameComments ==
  /\ pc = "loop" /\ Len(trace) >= 2
  /\ <<"push", Unit, SubmissionTask("r1", "p6")>> \in Range(trace)
  /\ trace[Len(trace) - 1] = <<"pop", <<Unit, SubmissionTask("r1", "p6")>> >>
  /\ trace[Len(trace)] = <<"push", Unit, CommentsTask("p6")>>

\* the step processes a long enough story without an exception
StoryStep ==
  /\ pc = "hn" /\ left' = left - 1 /\ error_calls' = error_calls
  /\ Len(StoryText(s'[1])) >= cfg.min_text_len

\* C15: a long enough story processed without an exception is persisted,
\* with items_written + 1, exactly if content >= tau_data or priority >=
\* tau_frontier, and otherwise changes no file; on this platform the frontier
\* is never pushed to or popped from, dedup_skipped stays 0 and only story
\* records are written.
StoryAdmittedOnEitherThreshold ==
  [][ /\ StoryStep =>
           LET it == s'[1]
               content == Content(StoryText(it))
               pr == Priority(StoryText(it), it.hours_since)
           IN IF content >= cfg.tau_data \/ pr >= cfg.tau_frontier
              THEN /\ Len(posts') = Len(posts) + 1
                   /\ SubSeq(posts', 1, Len(posts)) = posts
                   /\ posts'[Len(posts')].id = it.id
                   /\ items_written' = items_written + 1
              ELSE UNCHANGED <<posts, nodes, edges, items_written>>
      /\ platform = "hn" =>
           /\ heap' = <<>> /\ fseq' = 0 /\ trace' = <<>>
           /\ dedup_skipped' = 0
           /\ pc' \notin {"loop", "search", "comments", "author"}
           /\ \A i \in 1..Len(posts') : posts'[i].kind = "post" ]_vars

\* C15 witness: story h2, whose content score is below tau_data and whose
\* priority reaches tau_frontier, has been persisted
StoryAdmittedByPriority ==
  /\ platform = "hn" /\ Len(s) > 0 /\ Len(posts) > 0
  /\ s[1].id = "h2" /\ s[2] = "none"
  /\ Content(StoryText(s[1])) < cfg.tau_data
  /\ Priority(StoryText(s[1]), s[1].hours_since) >= cfg.tau_frontier
  /\ posts[Len(posts)].id = "h2" /\ items_written = Len(posts)

\* C16: on the story platform with max_items >= 1, items_written never
\* exceeds max_items and no story is processed once items_written has
\* reached max_items.
StoryLoopStopsAtCap ==
  [][ (platform = "hn" /\ max_items >= 1) =>
        /\ items_written' <= max_items
        /\ (pc = "hn" /\ left' = left - 1) => items_written < max_items ]_vars

\* a is a prefix of b
IsPrefix(a, b) == Len(a) <= Len(b) /\ SubSeq(b, 1, Len(a)) = a

\* C17: runs into the same out_dir accumulate: no step of any run removes
\* a row from the record log, the node table, the edge table or the metrics
\* table, so what an earlier run wrote is still there after a later run.
RunsAccumulate ==
  [][ /\ IsPrefix(posts, posts')
      /\ IsPrefix(nodes, nodes')
      /\ IsPrefix(edges, edges')
      /\ IsPrefix(metrics, metrics') ]_vars

\* a run is completed by the step: run() returns
RunCompletes == pc # "done" /\ pc' = "done"

\* C18: the metrics table, once it exists, has its header as first row and
\* nowhere else; the step that completes a run appends exactly one data row
\* to it and no other step changes its data rows.
MetricsHeaderOnceRowPerRun ==
  [][ /\ Len(metrics') > 0 =>
           /\ metrics'[1] = Header
           /\ \A i \in 2..Len(metrics') : metrics'[i] # Header
      /\ RunCompletes =>
           /\ Len(metrics') = Max(Len(metrics), 1) + 1
           /\ SubSeq(metrics', 2, Len(metrics') - 1) = SubSeq(metrics, 2, Len(metrics))
           /\ metrics'[Len(metrics')] # Header
      /\ ~RunCompletes =>
           SubSeq(metrics', 2, Len(metrics')) = SubSeq(metrics, 2, Len(metrics)) ]_vars

\* C18 witness: two runs have completed, a story run that wrote one record
\* and a run whose client failed; the table is the header and their two rows
TwoRunsTwoRows ==
  /\ pc = "done" /\ client = "failed"
  /\ Len(metrics) = 3 /\ metrics[1] = Header
  /\ metrics[2].items_written = 1 /\ metrics[2].error_calls = 0
  /\ metrics[3] = MetricsRow(0, 0, 0, 1, 0)

\* the pops in calls that returned an entry
PopCount(calls) ==
  Cardinality({i \in 1..Len(calls) : calls[i][1] = "pop" /\ calls[i][2] # <<>>})

\* the pushes in calls
PushesIn(calls) == Cardinality({i \in 1..Len(calls) : calls[i][1] = "push"})

\* C19: a pop on an empty frontier returns None and changes neither the
\* heap nor the sequence counter nor the seen-set; every push adds its entry
\* to the heap; and the length of the frontier is always the number of
\* pushes minus the number of pops that returned an entry.
PopEmptyReturnsNone ==
  [][ /\ (Len(NewCalls) = 1 /\ NewCalls[1][1] = "pop" /\ Len(heap) = 0) =>
           /\ NewCalls[1][2] = <<>>
           /\ popped' = <<>>
           /\ UNCHANGED <<heap, fseq, fseen>>
      /\ (Len(NewCalls) = 1 /\ NewCalls[1][1] = "push") =>
           /\ Len(heap') = Len(heap) + 1
           /\ [priority |-> 0 - NewCalls[1][2], seq |-> fseq, item |-> NewCalls[1][3]]
                \in Range(heap')
           /\ fseq' = fseq + 1 /\ fseen' = fseen
      /\ Len(heap') = PushesIn(trace') - PopCount(trace') ]_vars

\* C19 witness: a push, a pop that returned it, a pop on the empty frontier
\* that returned None, then a push: the length is 1
PoppedWhenEmpty ==
  /\ pc = "driver" /\ Len(trace) = 4
  /\ trace[1][1] = "push" /\ trace[2][1] = "pop"
  /\ trace[3] = <<"pop", <<>> >>
  /\ trace[4][1] = "push"
  /\ Len(heap) = 1 /\ fseq = 2

\* C20: no key is seen on a fresh Frontier; a key becomes seen only by the
\* mark_seen call for it, which changes nothing else; a seen key stays seen
\* through every push, pop and mark_seen; and marking a seen key again
\* changes nothing.
SeenOnlyAfterMarkThenForever ==
  /\ \A k \in DriverKeys : ~Seen(k)
  /\ [][ /\ \A k \in DriverKeys :
               /\ Seen(k) => Seen(k)'
               /\ (~Seen(k) /\ Seen(k)') =>
                    /\ fseen' = fseen \cup {k}
                    /\ UNCHANGED <<heap, fseq, trace>>
          /\ \A marked \in fseen' : mark_seen(fseen', marked) = fseen' ]_vars

\* C20 witness: both keys were marked, and pushes and pops went on around
\* the marking
BothKeysSeenAmidCalls ==
  /\ pc = "driver"
  /\ Seen("k1") /\ Seen("k2")
  /\ Len(trace) >= 3 /\ Len(heap) = 1
  /\ PopCount(trace) >= 1

\* C21: the queue and the seen-set of a Frontier are independent: a step
\* that makes a push or a pop leaves the seen-set as it is, and a step that
\* changes the seen-set leaves the heap, its length and the sequence counter
\* as they are and makes no push or pop.
QueueAndSeenIndependent ==
  [][ /\ Len(NewCalls) > 0 => fseen' = fseen
      /\ fseen' # fseen =>
           /\ heap' = heap /\ Len(heap') = Len(heap) /\ fseq' = fseq
           /\ trace' = trace ]_vars

\* C21 witness: three pushes and a pop around the marking of k1: two entries
\* are pending, and only k1 is seen
PushedButOnlyMarkedSeen ==
  /\ pc = "driver"
  /\ fseq = 3 /\ Len(heap) = 2 /\ PopCount(trace) = 1
  /\ fseen = {"k1"}

\* C22: success_calls is 0 in every state of a run and in every metrics row
\* written, whatever the platform and however the run ends.
SuccessCallsNeverCounted ==
  /\ success_calls = 0
  /\ \A i \in 1..Len(metrics) : metrics[i] # Header => metrics[i].success_calls = 0

\* C22 witness: a run that fetched and wrote items has flushed its row
RowAfterWrites ==
  /\ pc = "done" /\ items_fetched >= 2 /\ items_written >= 1
  /\ Len(metrics) = 2
  /\ metrics[2].items_fetched = items_fetched /\ metrics[2].success_calls = 0

\* the rows the step appended to a table
NewRows(old, new) == SubSeq(new, Len(old) + 1, Len(new))

\* the indices of the rows of a given edge type
EdgesOfType(rows, type) == {i \in 1..Len(rows) : rows[i].edge_type = type}

\* the start positions of the literal occurrences of p in t
MatchStarts(t, p) ==
  {i \in 1..(Len(t) - Len(p) + 1) : SubSeq(t, i, i + Len(p) - 1) = p}

\* the number of non-overlapping literal occurrences of p in t: the size of
\* a largest set of occurrences no two of which share a character
Occurrences(t, p) ==
  LET M == MatchStarts(t, p)
      Apart(S) == \A i, j \in S : i < j => j - i >= Len(p)
      Fits(n) == \E S \in SUBSET M : Cardinality(S) = n /\ Apart(S)
  IN CHOOSE n \in 0..Cardinality(M) : Fits(n) /\ ~Fits(n + 1)

\* C27: a reply persisted without an exception that carries a parent
\* reference gets exactly one REPLY_TO edge, from its comment node to the
\* post node of the referenced id if the prefix is t3_ and to the comment
\* node of the referenced id if the prefix is t1_; a reply without a parent
\* reference gets no REPLY_TO edge.
ReplyToResolved ==
  [][ (ReplyStep /\ Len(Strip(s'[1].body)) >= cfg.min_text_len) =>
        LET c == s'[1]
            new == NewRows(edges, edges')
            replyTo == EdgesOfType(new, "REPLY_TO")
        IN IF c.parent_id # NoParent
           THEN /\ Cardinality(replyTo) = 1
                /\ \A i \in replyTo :
                     /\ new[i].src_id = <<"reddit", "comment", c.id>>
                     /\ c.parent_id[1] = "t3_" =>
                          new[i].dst_id = <<"reddit", "post", c.parent_id[2]>>
                     /\ c.parent_id[1] = "t1_" =>
                          new[i].dst_id = <<"reddit", "comment", c.parent_id[2]>>
           ELSE replyTo = {} ]_vars

\* C27 witness: reply c2, whose parent reference is t1_c1, has been
\* persisted and its REPLY_TO edge goes to the comment node of c1
ReplyToACommentEmitted ==
  /\ pc = "comments" /\ Len(s) > 0 /\ Len(edges) > 1
  /\ s[1].id = "c2" /\ s[2] = "none"
  /\ edges[Len(edges)] = Edge(<<"reddit", "comment", "c2">>,
                              <<"reddit", "comment", "c1">>, "REPLY_TO", 1)

\* the step harvests a search item without an exception
HarvestStep == AdmissionStep /\ Content(SearchText(s'[1])) >= cfg.tau_data

\* how many entries of q equal x
CountIn(q, x) == Cardinality({i \in 1..Len(q) : q[i] = x})

\* C28: a search item harvested without an exception appends to the node
\* table its post node, its container node, its author node exactly if it
\* has an author, and one domain node per outbound domain; and to the edge
\* table one IN_CONTAINER edge, one AUTHORED_BY edge exactly if it has an
\* author, one LINKS_TO_DOMAIN edge per outbound domain, and per brand and
\* per policy term that occurs in the text exactly one MENTIONS edge weighted
\* by the number of its occurrences; nothing else, and nothing for a term
\* that does not occur.
HarvestGraphRows ==
  [][ HarvestStep =>
        LET it == s'[1]
            sub == popped[2].subreddit
            src == <<"reddit", "post", it.id>>
            text == Lower(SearchText(it))
            hasAuthor == IF it.author # None THEN 1 ELSE 0
            doms == {it.urls[i] : i \in 1..Len(it.urls)} \ {None}
            ndoms == Cardinality({i \in 1..Len(it.urls) : it.urls[i] # None})
            brandOcc == [i \in 1..Len(cfg.brands) |-> Occurrences(text, Lower(cfg.brands[i]))]
            policyOcc == [i \in 1..Len(cfg.policies) |-> Occurrences(text, Lower(cfg.policies[i]))]
            newN == NewRows(nodes, nodes')
            newE == NewRows(edges, edges')
        IN /\ IsPrefix(nodes, nodes') /\ IsPrefix(edges, edges')
           /\ CountIn(newN, Node(src, "post")) = 1
           /\ CountIn(newN, Node(<<"reddit", "container", sub>>, "container")) = 1
           /\ Cardinality({i \in 1..Len(newN) : newN[i].node_type = "author"}) = hasAuthor
           /\ it.author # None =>
                /\ CountIn(newN, Node(<<"reddit", "author", it.author>>, "author")) = 1
                /\ CountIn(newE, Edge(src, <<"reddit", "author", it.author>>, "AUTHORED_BY", 1)) = 1
           /\ Cardinality(EdgesOfType(newE, "AUTHORED_BY")) = hasAuthor
           /\ CountIn(newE, Edge(src, <<"reddit", "container", sub>>, "IN_CONTAINER", 1)) = 1
           /\ Cardinality(EdgesOfType(newE, "IN_CONTAINER")) = 1
           /\ \A d \in doms :
                /\ CountIn(newE, Edge(src, <<"domain", d>>, "LINKS_TO_DOMAIN", 1)) = CountIn(it.urls, d)
                /\ CountIn(newN, Node(<<"domain", d>>, "domain")) = CountIn(it.urls, d)
           /\ Cardinality(EdgesOfType(newE, "LINKS_TO_DOMAIN")) = ndoms
           /\ \A i \in 1..Len(cfg.brands) :
                brandOcc[i] > 0 =>
                  CountIn(newE, Edge(src, <<"BRAND">>, "MENTIONS_BRAND", brandOcc[i])) >= 1
           /\ Cardinality(EdgesOfType(newE, "MENTIONS_BRAND"))
                = Cardinality({i \in 1..Len(cfg.brands) : brandOcc[i] > 0})
           /\ \A i \in 1..Len(cfg.policies) :
                policyOcc[i] > 0 =>
                  CountIn(newE, Edge(src, <<"POLICY">>, "MENTIONS_POLICY", policyOcc[i])) >= 1
           /\ Cardinality(EdgesOfType(newE, "MENTIONS_POLICY"))
                = Cardinality({i \in 1..Len(cfg.policies) : policyOcc[i] > 0})
           /\ Len(newN) = 2 + hasAuthor + ndoms
           /\ Len(newE) = 1 + hasAuthor + ndoms
                          + Cardinality(EdgesOfType(newE, "MENTIONS_BRAND"))
                          + Cardinality(EdgesOfType(newE, "MENTIONS_POLICY")) ]_vars

\* C28 witness: p2, without author, with two outbound domains and two
\* occurrences of the brand term, has been harvested: no AUTHORED_BY edge,
\* two LINKS_TO_DOMAIN edges, one MENTIONS_BRAND edge of weight 2 and no
\* MENTIONS_POLICY edge
HarvestedWithDomainsAndBrand ==
  /\ pc = "search" /\ Len(s) > 0 /\ Len(edges) >= 5
  /\ s[1].id = "p2" /\ s[2] = "none"
  /\ LET src == <<"reddit", "post", "p2">>
         last == SubSeq(edges, Len(edges) - 3, Len(edges))
     IN last = << Edge(src, <<"reddit", "container", popped[2].subreddit>>, "IN_CONTAINER", 1),
                  Edge(src, <<"domain", "d1">>, "LINKS_TO_DOMAIN", 1),
                  Edge(src, <<"domain", "d2">>, "LINKS_TO_DOMAIN", 1),
                  Edge(src, <<"BRAND">>, "MENTIONS_BRAND", 2) >>

\* what a filtered item must leave alone
FilterFrame ==
  UNCHANGED <<error_calls, items_written, dedup_skipped, posts, nodes, edges,
              metrics, heap, fseq, trace>>

\* C29: an item that reaches the length filter with a text shorter than
\* min_text_len, in the search loop, the comments loop or the story loop,
\* changes neither error_calls nor items_written nor dedup_skipped, writes no
\* record and no graph row and pushes no task.
ShortItemOnlyFiltered ==
  [][ /\ ( /\ SearchStep /\ s'[2] \notin {"id", "attr"}
            /\ s'[1].id \notin seen_posts
            /\ Len(SearchText(s'[1])) < cfg.min_text_len ) => FilterFrame
      /\ ( /\ pc = "comments" /\ left' = left - 1
            /\ Len(Strip(s'[1].body)) < cfg.min_text_len ) => FilterFrame
      /\ ( /\ pc = "hn" /\ left' = left - 1 /\ s'[2] # "attr"
            /\ Len(StoryText(s'[1])) < cfg.min_text_len ) => FilterFrame ]_vars

\* C29 witness: the short item p5 was fetched as the first item of the run
\* and nothing but items_fetched and seen_posts records it
ShortItemDropped ==
  /\ pc = "search" /\ Len(s) > 0
  /\ s[1].id = "p5" /\ Len(SearchText(s[1])) < cfg.min_text_len
  /\ items_fetched = 1 /\ seen_posts = {"p5"}
  /\ error_calls = 0 /\ items_written = 0 /\ posts = <<>>
  /\ PushesIn(trace) = Len(get_seeds)

\* the maximal runs of token characters of tl
TokenRuns(tl) ==
  LET n == Len(tl)
      IsRun(i, j) == /\ i <= j
                     /\ \A m \in i..j : IsTokenChar(tl[m])
                     /\ (i = 1 \/ ~IsTokenChar(tl[i - 1]))
                     /\ (j = n \/ ~IsTokenChar(tl[j + 1]))
  IN {SubSeq(tl, w[1], w[2]) : w \in {v \in (1..n) \X (1..n) : IsRun(v[1], v[2])}}

RECURSIVE OccurrenceSum(_, _)
\* the sum over the phrases of their occurrence counts in tl, letter case
\* and the white space around a phrase set aside
OccurrenceSum(tl, phrases) ==
  IF phrases = <<>>
  THEN 0
  ELSE LET ph == Strip(Lower(Head(phrases)))
       IN (IF ph = <<>> THEN 0 ELSE Occurrences(tl, ph))
          + OccurrenceSum(tl, Tail(phrases))

\* C23: content_score is 0 for the empty text and otherwise 0.2 times the
\* number of distinct tokens of the text that are keyword tokens, plus 0.6
\* times the sum of the keyword phrases' occurrence counts, plus the brand
\* bonus times the brand terms' occurrence counts, plus the policy bonus
\* times the policy terms' occurrence counts; it is never negative, and the
\* sentence of the test scores more than 2.0 with the test's arguments.
ContentScoreIsTheFormula ==
  pc = "scored" =>
    LET c == ScoreConf(s[2])
        tl == Lower(s[1])
        keywordTokens == UNION {TokenRuns(Lower(k)) : k \in Range(c.keywords)}
        unique == TokenRuns(tl) \cap keywordTokens
    IN /\ popped[1] =
            IF s[1] = <<>>
            THEN 0
            ELSE ((2 * Unit) \div 10) * Cardinality(unique)
                 + ((6 * Unit) \div 10) * OccurrenceSum(tl, c.keywords)
                 + c.brand_bonus * OccurrenceSum(tl, c.brand_terms)
                 + c.policy_bonus * OccurrenceSum(tl, c.policy_terms)
       /\ popped[1] >= 0
       /\ (s = <<RefSentence, "test">> => popped[1] > 2 * Unit)

\* the sentence of the test was scored: 3.3
ReferenceSentenceScored ==
  /\ pc = "scored"
  /\ s = <<RefSentence, "test">>
  /\ popped = <<(33 * Unit) \div 10>>

\* a step that adds an occurrence of a term of the call to the text: no
\* term's occurrence count went down and some term's count went up
OccurrenceAdded ==
  /\ pc = "scored" /\ pc' = "scored"
  /\ s'[2] = s[2]
  /\ LET terms == {Strip(Lower(q)) : q \in TermsOf(s[2])}
         old == Lower(s[1])
         new == Lower(s'[1])
     IN /\ \A q \in terms : Occurrences(new, q) >= Occurrences(old, q)
        /\ \E q \in terms : Occurrences(new, q) > Occurrences(old, q)

\* C24: content_score does not go down when a further literal occurrence of
\* a keyword, a brand term or a policy term is added to the text, the
\* keywords, terms and bonuses being the same.
ScoreMonotoneInOccurrences ==
  [][OccurrenceAdded => popped'[1] >= popped[1]]_vars

\* C25: final_priority is the product of the content clamped to >= 0, the
\* recency clamped to [0, 1] and the multiplier (1 + max(author_auth, 0) +
\* max(url_auth, 0)) * (1 - max(off_topic_penalty, 0)) clamped to >= 0; it
\* is never negative, it is 0 when content <= 0 or recency <= 0, and with
\* the default authority and penalty it does not exceed the clamped content.
PriorityIsClampedProduct ==
  pc = "prioritised" =>
    LET content == trace[1]
        recency == trace[2]
        author_auth == trace[3]
        url_auth == trace[4]
        off_topic_penalty == trace[5]
        Pos(x) == IF x < 0 THEN 0 ELSE x
        c == Pos(content)
        r == IF recency > Unit THEN Unit ELSE Pos(recency)
        mult == Pos(((Unit + Pos(author_auth) + Pos(url_auth))
                     * (Unit - Pos(off_topic_penalty))) \div Unit)
    IN /\ popped[1] = (c * r * mult) \div (Unit * Unit)
       /\ popped[1] >= 0
       /\ (content <= 0 \/ recency <= 0) => popped[1] = 0
       /\ (author_auth = 0 /\ url_auth = 0 /\ off_topic_penalty = 0)
            => popped[1] <= c

\* content 2.1 with a recency of 2.0 and the defaults: 2.1
RecencyAboveOneClamped ==
  /\ pc = "prioritised"
  /\ trace = <<(21 * Unit) \div 10, 2 * Unit, 0, 0, 0>>
  /\ popped = <<(21 * Unit) \div 10>>

\* C26: recency_boost(h, H) is 1.0 when h <= 0 or H <= 0; otherwise it lies
\* in (0, 1], is half as large H hours later (on the grid: rounded down),
\* and is strictly smaller H hours later.
RecencyBoostHalvesInUnitInterval ==
  pc = "boosted" =>
    LET h == trace[1]
        H == trace[2]
        later == recency_boost(h + H, H)
    IN IF h <= 0 \/ H <= 0
       THEN popped[1] = Unit
       ELSE /\ 0 < popped[1] /\ popped[1] <= Unit
            /\ later = popped[1] \div 2
            /\ later < popped[1]

\* C30: a run on the primary platform that has pushed its seeds goes on to
\* the metrics flush: the frontier empties or the cap is reached, the loop
\* ends and the row of the run is written.
SeededRunReachesFlush ==
  (platform = "reddit" /\ pc = "loop") ~> (pc = "done")

\* the part that holds: a run that has pushed its seeds ends
SeededRunEnds ==
  (platform = "reddit" /\ pc = "loop") ~> (pc \in {"done", "aborted"})

\* C31: on both platforms, in every state and in every metrics row, the
\* written count does not exceed the fetched count.
WrittenAtMostFetched ==
  /\ items_written <= items_fetched
  /\ \A i \in 1..Len(metrics) :
       metrics[i] # Header => metrics[i].items_written <= metrics[i].items_fetched

\* C32: on the primary platform every search item whose id can be read
\* adds one to items_fetched and one to either dedup_skipped or the number of
\* ids in seen_posts, and no other step changes any of the three, so that
\* items_fetched = dedup_skipped + |seen_posts| as long as no id read
\* failed; dedup_skipped never exceeds items_fetched.
FetchedIsDedupPlusSeen ==
  /\ items_fetched = dedup_skipped + Cardinality(seen_posts)
  /\ [](dedup_skipped <= items_fetched)
  /\ [][ (platform = "reddit" /\ ~(SearchStep /\ s'[2] = "id")) =>
          /\ items_fetched' - items_fetched
               = (dedup_skipped' + Cardinality(seen_posts'))
                 - (dedup_skipped + Cardinality(seen_posts))
          /\ items_fetched' - items_fetched = IF SearchStep THEN 1 ELSE 0 ]_vars

\* three search items with readable ids, one of them a repetition, and one
\* whose attributes could not be read
ThreeFetchedOneSkipped ==
  /\ platform = "reddit"
  /\ items_fetched = 3 /\ dedup_skipped = 1 /\ Cardinality(seen_posts) = 2
  /\ error_calls = 1

\* C33: a step that counts an item as an error persists no record for it,
\* leaves items_written as it is and pushes no task.
ErrorLeavesNoOutput ==
  [][ error_calls' = error_calls + 1 =>
        /\ posts' = posts
        /\ items_written' = items_written
        /\ heap' = heap /\ fseq' = fseq ]_vars

\* the step changes nothing but the fetched and the skipped count
OnlySkipped ==
  /\ dedup_skipped' = dedup_skipped + 1
  /\ items_fetched' = items_fetched + 1
  /\ UNCHANGED <<seen_posts, items_written, error_calls, success_calls,
                 heap, fseq, fseen, trace, posts, nodes, edges, metrics, pc>>

\* C34 as stated: whatever happens to a search item (dropped for length,
\* dropped by the thresholds, failed with an exception, admitted), its id is
\* in seen_posts afterwards and stays there, and every later search item
\* with that id only increments dedup_skipped.
FailedItemNeverReconsidered ==
  [][ /\ seen_posts \subseteq seen_posts'
      /\ SearchStep =>
           /\ s'[1].id \in seen_posts'
           /\ s'[1].id \in seen_posts => OnlySkipped ]_vars

\* C34 amended: the same for the items whose id could be read, the later
\* occurrences included.
ReadItemNeverReconsidered ==
  [][ /\ seen_posts \subseteq seen_posts'
      /\ (SearchStep /\ s'[2] # "id") =>
           /\ s'[1].id \in seen_posts'
           /\ s'[1].id \in seen_posts => OnlySkipped ]_vars

\* a search item dropped for its length came again and was skipped, after
\* an item whose attributes could not be read
ShortItemSkippedLater ==
  /\ pc = "search" /\ Len(s) > 0
  /\ Len(SearchText(s[1])) < cfg.min_text_len
  /\ s[1].id \in seen_posts
  /\ dedup_skipped = 1 /\ items_fetched = 3 /\ error_calls = 1
  /\ posts = <<>>

\* C35: with the default authority and penalty, every task pushed for a
\* search item has a priority between 0 and the content score of the item;
\* a task pushed by the explore-only branch has tau_frontier <= priority <
\* tau_data; and no item takes the explore-only branch when tau_frontier >=
\* tau_data.  Under the thresholds of cfg the branch is the one the
\* orchestrator takes.
PushedPriorityWithinContent ==
  pc = "admitted" =>
    LET it == s[1]
        tau_data == s[2]
        tau_frontier == s[3]
        branch == s[4]
        content == content_score(SearchText(it), cfg.keywords, cfg.brands,
                                 cfg.policies, cfg.brand_bonus, cfg.policy_bonus)
        pushes == {i \in 1..Len(trace) : trace[i][1] = "push"}
    IN /\ \A i \in pushes : 0 <= trace[i][2] /\ trace[i][2] <= content
       /\ branch = "explore" =>
            /\ Cardinality(pushes) = 1
            /\ \A i \in pushes :
                 tau_frontier <= trace[i][2] /\ trace[i][2] < tau_data
       /\ tau_frontier >= tau_data => branch # "explore"
       /\ (tau_data = cfg.tau_data /\ tau_frontier = cfg.tau_frontier)
            => branch = SearchBranch(it, "none", {})

\* an item of content 1.4 and priority 0.7 took the explore-only branch:
\* its one task was pushed at 0.7
ExploredBelowContent ==
  /\ pc = "admitted"
  /\ s[4] = "explore"
  /\ popped = <<(14 * Unit) \div 10, (7 * Unit) \div 10>>
  /\ \E i \in 1..Len(trace) : trace[i][1] = "push" /\ trace[i][2] = (7 * Unit) \div 10

\* the entry a step takes from the heap, if it takes one
PoppedEntries == {e \in Range(heap) : \A e2 \in Range(heap') : e2.seq # e.seq}

\* the search tasks an entry leaves behind in the heap when it is popped
SearchesLeft == {e \in Range(heap') : e.item.etype = "search"}

\* C36: the search tasks are the seeds, popped in the order of the seed
\* pairs; and when a task that was pushed after the seeds at priority 1.0 (a
\* Submission task, or the Comments task a Submission task pushed) is
\* popped, no seed search task is left in the frontier.
SeedsInOrderBeforeLaterTasks ==
  [][ platform = "reddit" =>
        \A x \in PoppedEntries :
          /\ x.item.etype = "search" =>
               /\ x.seq < Len(get_seeds)
               /\ x.item = SearchTask(get_seeds[x.seq + 1])
               /\ \A e \in SearchesLeft : e.seq > x.seq
          /\ (x.item.etype # "search" /\ x.priority = 0 - Unit) =>
               /\ x.item.etype \in {"submission", "comments"}
               /\ x.seq >= Len(get_seeds)
               /\ SearchesLeft = {} ]_vars

\* a Submission task was popped after both seed searches
SubmissionAfterSeeds ==
  /\ pc = "loop" /\ Len(popped) > 0
  /\ popped[2].etype = "submission"
  /\ Cardinality({i \in 1..Len(trace) :
                    /\ trace[i][1] = "pop"
                    /\ trace[i][2][2].etype = "search"}) = Len(get_seeds)

\* C37: the sequence counter is the number of pushes made so far: every
\* push gives its entry the current value and adds one, and a pop leaves the
\* counter alone.  So the entry of the n-th push carries n - 1 for good, the
\* pending entries carry different numbers below the counter, and no number
\* is given twice.  The popped entry has the largest priority whatever its
\* sequence number; the sequence number decides only among entries of that
\* priority.
SeqCountsPushes ==
  /\ [](/\ fseq = PushesIn(trace)
        /\ \A e \in Range(heap) : e.seq = e.item.n /\ e.seq < fseq
        /\ \A i, j \in 1..Len(heap) : i # j => heap[i].seq # heap[j].seq)
  /\ [][ /\ fseq' = fseq + PushesIn(NewCalls)
         /\ \A e \in Range(heap') :
              (\A e2 \in Range(heap) : e2.item # e.item) => e.seq = fseq
         /\ \A x \in PoppedEntries :
              \A e \in Range(heap) :
                /\ x.priority <= e.priority
                /\ e.priority = x.priority => x.seq <= e.seq ]_vars

\* two pushes, two pops and a third push: its entry carries 2
SeqGoesOnAfterPops ==
  /\ pc = "driver"
  /\ fseq = 3 /\ PopCount(trace) = 2
  /\ Len(heap) = 1 /\ heap[1].seq = 2
  /\ trace[5][1] = "push"

TypeOK ==
  /\ pc \in {"start", "loop", "search", "comments", "author", "hn", "flush",
             "done", "aborted",
             "score", "scored", "rank", "prioritised", "boosted", "admitted"}
  /\ items_written \in Nat /\ items_fetched \in Nat

====
